---- MODULE Spec2Model ----
(***************************************************************************)
(* Verification model of the property-search front end:                    *)
(*   lib/searchUtils.ts, lib/useSearchParams.ts, lib/useFacetHandlers.ts,  *)
(*   lib/api.ts and the traditional, beginner, intermediate and advanced   *)
(*   (chat) search pages.                                                  *)
(* Strings are sequences of characters, so that formatting, parsing,       *)
(* joining, splitting and case conversion are computed, not assumed.       *)
(***************************************************************************)
EXTENDS Integers, Sequences, FiniteSets, TLC

(***************************************************************************)
(* JavaScript values                                                       *)
(***************************************************************************)
\* string | null  and  T | undefined : the empty tuple is null/undefined
None == <<>>
Some(v) == <<v>>
IsSome(o) == o # <<>>
Val(o) == o[1]

\* number | undefined, with NaN and Infinity
Undefined == [t |-> "undefined", n |-> 0]
NaN == [t |-> "NaN", n |-> 0]
Infinity == [t |-> "Infinity", n |-> 0]
Num(n) == [t |-> "number", n |-> n]
IsNum(x) == x.t = "number"

\* a <= b in place of a < b
LessOrEqual(a, b) ==
  CASE a.t = "NaN" \/ b.t = "NaN" -> FALSE
    [] b.t = "Infinity" -> TRUE
    [] a.t = "Infinity" -> FALSE
    [] OTHER -> a.n <= b.n

\* a < b on numbers, NaN and +Infinity (any comparison with NaN is false)
Less(a, b) ==
  CASE a.t = "NaN" \/ b.t = "NaN" -> FALSE
    [] a.t = "Infinity" -> FALSE
    [] b.t = "Infinity" -> TRUE
    [] OTHER -> a.n < b.n

MathMin(a, b) ==
  IF a.t = "NaN" \/ b.t = "NaN" THEN NaN ELSE IF a.n <= b.n THEN a ELSE b

MathMax(a, b) ==
  IF a.t = "NaN" \/ b.t = "NaN" THEN NaN ELSE IF a.n >= b.n THEN a ELSE b

\* Math.min(...xs) / Math.max(...xs) over a non-empty list
RECURSIVE MathMinAll(_)
MathMinAll(xs) ==
  IF Len(xs) = 1 THEN xs[1] ELSE MathMin(xs[1], MathMinAll(Tail(xs)))

RECURSIVE MathMaxAll(_)
MathMaxAll(xs) ==
  IF Len(xs) = 1 THEN xs[1] ELSE MathMax(xs[1], MathMaxAll(Tail(xs)))

(***************************************************************************)
(* Strings                                                                 *)
(***************************************************************************)
Digits == {"0", "1", "2", "3", "4", "5", "6", "7", "8", "9"}

DigitVal(c) ==
  CASE c = "0" -> 0 [] c = "1" -> 1 [] c = "2" -> 2 [] c = "3" -> 3
    [] c = "4" -> 4 [] c = "5" -> 5 [] c = "6" -> 6 [] c = "7" -> 7
    [] c = "8" -> 8 [] c = "9" -> 9

DigitChar(d) ==
  CASE d = 0 -> "0" [] d = 1 -> "1" [] d = 2 -> "2" [] d = 3 -> "3"
    [] d = 4 -> "4" [] d = 5 -> "5" [] d = 6 -> "6" [] d = 7 -> "7"
    [] d = 8 -> "8" [] d = 9 -> "9"

\* Number.prototype.toString for a non-negative integer
RECURSIVE NatToString(_)
NatToString(n) ==
  IF n < 10 THEN <<DigitChar(n)>>
  ELSE Append(NatToString(n \div 10), DigitChar(n % 10))

\* number.toString(): integers in decimal, NaN as "NaN"
toString(x) ==
  CASE x.t = "NaN" -> <<"N", "a", "N">>
    [] x.t = "number" /\ x.n < 0 -> <<"-">> \o NatToString(0 - x.n)
    [] OTHER -> NatToString(x.n)

RECURSIVE TrimStart(_)
TrimStart(s) ==
  IF s # <<>> /\ Head(s) = " " THEN TrimStart(Tail(s)) ELSE s

RECURSIVE TrimEnd(_)
TrimEnd(s) ==
  IF s # <<>> /\ s[Len(s)] = " " THEN TrimEnd(SubSeq(s, 1, Len(s) - 1)) ELSE s

\* String.prototype.trim
trim(s) == TrimEnd(TrimStart(s))

\* the longest prefix of s made of decimal digits
RECURSIVE LeadingDigits(_)
LeadingDigits(s) ==
  IF s # <<>> /\ Head(s) \in Digits
  THEN <<Head(s)>> \o LeadingDigits(Tail(s))
  ELSE <<>>

RECURSIVE DigitsValue(_)
DigitsValue(ds) ==
  IF ds = <<>> THEN 0
  ELSE 10 * DigitsValue(SubSeq(ds, 1, Len(ds) - 1)) + DigitVal(ds[Len(ds)])

\* parseInt(s): optional white space and sign, then the leading digits;
\* NaN when there is no digit
parseInt(s) ==
  LET t == TrimStart(s)
      signed == t # <<>> /\ Head(t) \in {"-", "+"}
      body == IF signed THEN Tail(t) ELSE t
      ds == LeadingDigits(body)
  IN  IF ds = <<>> THEN NaN
      ELSE IF signed /\ Head(t) = "-" THEN Num(0 - DigitsValue(ds))
      ELSE Num(DigitsValue(ds))

\* String.prototype.split(sep) for a one-character separator
RECURSIVE split(_, _)
split(s, sep) ==
  IF \A i \in 1..Len(s) : s[i] # sep THEN <<s>>
  ELSE LET i == CHOOSE j \in 1..Len(s) :
                  s[j] = sep /\ \A k \in 1..(j - 1) : s[k] # sep
       IN  <<SubSeq(s, 1, i - 1)>> \o split(SubSeq(s, i + 1, Len(s)), sep)

\* Array.prototype.join(sep)
RECURSIVE join(_, _)
join(xs, sep) ==
  IF xs = <<>> THEN <<>>
  ELSE IF Len(xs) = 1 THEN xs[1]
  ELSE xs[1] \o <<sep>> \o join(Tail(xs), sep)

\* Array.prototype.filter(x => x !== v)
RECURSIVE without(_, _)
without(xs, v) ==
  IF xs = <<>> THEN <<>>
  ELSE IF Head(xs) = v THEN without(Tail(xs), v)
  ELSE <<Head(xs)>> \o without(Tail(xs), v)

Includes(xs, v) == \E i \in 1..Len(xs) : xs[i] = v

\* the letters of the text alphabet and their case mapping
Letters == {"a", "A", "b", "B"}
LowerOf(c) == CASE c = "A" -> "a" [] c = "B" -> "b" [] OTHER -> c
UpperOf(c) == CASE c = "a" -> "A" [] c = "b" -> "B" [] OTHER -> c

\* \w of the regular expression in toTitleCase
IsWordChar(c) == c \in Letters \/ c \in Digits

\* String.prototype.toLowerCase
RECURSIVE toLowerCase(_)
toLowerCase(s) ==
  IF s = <<>> THEN <<>> ELSE <<LowerOf(Head(s))>> \o toLowerCase(Tail(s))

\* upper-case every word character of l that starts a word (follows a \b)
RECURSIVE CapitalizeFrom(_, _)
CapitalizeFrom(l, atBoundary) ==
  IF l = <<>> THEN <<>>
  ELSE <<IF IsWordChar(Head(l)) /\ atBoundary THEN UpperOf(Head(l)) ELSE Head(l)>>
       \o CapitalizeFrom(Tail(l), ~IsWordChar(Head(l)))

\* toTitleCase: str.toLowerCase().replace(/\b\w/g, c => c.toUpperCase())
toTitleCase(s) == CapitalizeFrom(toLowerCase(s), TRUE)

(***************************************************************************)
(* lib/searchUtils.ts                                                      *)
(***************************************************************************)
\* the range keys of the facets, "<low>-<high>"
RangeKey(lo, hi) == NatToString(lo) \o <<"-">> \o NatToString(hi)

OpenPriceMax == NatToString(999999999)
OpenSqftMax == NatToString(999999)

availablePriceRanges ==
  << RangeKey(0, 500000), RangeKey(500000, 750000), RangeKey(750000, 1000000),
     RangeKey(1000000, 1500000), RangeKey(1500000, 999999999) >>

availableSqftRanges ==
  << RangeKey(0, 800), RangeKey(800, 1200), RangeKey(1200, 1800),
     RangeKey(1800, 2500), RangeKey(2500, 999999) >>

\* the last bucket parsed as a closed one
parsePriceRangeClosed(range) ==
  LET parts == split(range, "-")
  IN  [min |-> parseInt(parts[1]), max |-> parseInt(parts[2])]

parsePriceRange(range) ==
  LET parts == split(range, "-")
  IN  [min |-> parseInt(parts[1]),
       max |-> IF parts[2] = OpenPriceMax THEN Undefined ELSE parseInt(parts[2])]

parseSqftRange(range) ==
  LET parts == split(range, "-")
  IN  [min |-> parseInt(parts[1]),
       max |-> IF parts[2] = OpenSqftMax THEN Undefined ELSE parseInt(parts[2])]

\* availableRanges.filter(range => rangeMin < effectiveMax && rangeMax > effectiveMin)
RECURSIVE OverlappingRanges(_, _, _, _)
OverlappingRanges(ranges, openMax, min, max) ==
  IF ranges = <<>> THEN <<>>
  ELSE LET parts == split(Head(ranges), "-")
           rangeMinNum == parseInt(parts[1])
           rangeMaxNum == IF parts[2] = openMax THEN Infinity ELSE parseInt(parts[2])
           effectiveMin == IF min = Undefined THEN Num(0) ELSE min
           effectiveMax == IF max = Undefined THEN Infinity ELSE max
           keep == Less(rangeMinNum, effectiveMax) /\ Less(effectiveMin, rangeMaxNum)
       IN  (IF keep THEN <<Head(ranges)>> ELSE <<>>)
           \o OverlappingRanges(Tail(ranges), openMax, min, max)

getSelectedPriceRanges(min, max) ==
  IF min = Undefined /\ max = Undefined THEN <<>>
  ELSE OverlappingRanges(availablePriceRanges, OpenPriceMax, min, max)

getSelectedSqftRanges(min, max) ==
  IF min = Undefined /\ max = Undefined THEN <<>>
  ELSE OverlappingRanges(availableSqftRanges, OpenSqftMax, min, max)

(***************************************************************************)
(* The URL (URLSearchParams) and lib/useSearchParams.ts                    *)
(***************************************************************************)
Keys == {"q", "title", "description", "property_type", "bedrooms",
         "min_price", "max_price", "min_sqft", "max_sqft", "sort", "page"}

EmptyURL == [k \in Keys |-> None]

\* JavaScript truthiness of string | null
Truthy(o) == IsSome(o) /\ Val(o) # <<>>

\* searchParams.get(k) || dflt
GetOr(sp, k, dflt) == IF Truthy(sp[k]) THEN Val(sp[k]) ELSE dflt

\* searchParams.get(k)?.split(',') || []
GetList(sp, k) == IF IsSome(sp[k]) THEN split(Val(sp[k]), ",") ELSE <<>>

\* a variant that reads the number with parseInt(...) || undefined
GetIntFalsyZero(sp, k) ==
  IF Truthy(sp[k]) /\ parseInt(Val(sp[k])) \notin {Num(0), NaN}
  THEN parseInt(Val(sp[k]))
  ELSE Undefined

\* searchParams.get(k) ? parseInt(searchParams.get(k)!) : undefined
GetInt(sp, k) == IF Truthy(sp[k]) THEN parseInt(Val(sp[k])) ELSE Undefined

Relevance == <<"relevance">>

useParsedSearchParams(sp) ==
  [ qParam |-> GetOr(sp, "q", <<>>),
    titleParam |-> GetOr(sp, "title", <<>>),
    descriptionParam |-> GetOr(sp, "description", <<>>),
    selectedPropertyTypes |-> GetList(sp, "property_type"),
    selectedBedrooms |-> GetList(sp, "bedrooms"),
    minPrice |-> GetInt(sp, "min_price"),
    maxPrice |-> GetInt(sp, "max_price"),
    minSqft |-> GetInt(sp, "min_sqft"),
    maxSqft |-> GetInt(sp, "max_sqft"),
    selectedPriceRanges |->
      getSelectedPriceRanges(GetInt(sp, "min_price"), GetInt(sp, "max_price")),
    selectedSqftRanges |->
      getSelectedSqftRanges(GetInt(sp, "min_sqft"), GetInt(sp, "max_sqft")),
    sort |-> GetOr(sp, "sort", Relevance),
    page |-> parseInt(GetOr(sp, "page", <<"1">>)) ]

(***************************************************************************)
(* lib/useFacetHandlers.ts: each handler yields the URL it pushes          *)
(***************************************************************************)
\* updates maps some keys to string | null; null and '' delete the key
updateURL(sp, updates) ==
  [k \in Keys |->
     IF k \in DOMAIN updates
     THEN (IF Truthy(updates[k]) THEN updates[k] ELSE None)
     ELSE sp[k]]

\* list.length > 0 ? list.join(',') : null
JoinOrNull(xs) == IF Len(xs) > 0 THEN Some(join(xs, ",")) ELSE None

\* x?.toString() || null
ToStringOrNull(x) == IF x = Undefined THEN None ELSE Some(toString(x))

newPropertyTypes(sp, value, checked) ==
  LET selectedPropertyTypes == GetList(sp, "property_type")
  IN  IF checked THEN Append(selectedPropertyTypes, value)
      ELSE without(selectedPropertyTypes, value)

handlePropertyTypeChange(sp, value, checked) ==
  updateURL(sp, [k \in {"property_type"} |->
                   JoinOrNull(newPropertyTypes(sp, value, checked))])

newBedrooms(sp, value, checked) ==
  LET selectedBedrooms == GetList(sp, "bedrooms")
  IN  IF checked THEN Append(selectedBedrooms, value)
      ELSE without(selectedBedrooms, value)

handleBedroomChange(sp, value, checked) ==
  updateURL(sp, [k \in {"bedrooms"} |-> JoinOrNull(newBedrooms(sp, value, checked))])

\* the lower bounds / defined upper bounds of a list of parsed ranges
RECURSIVE RangeMins(_)
RangeMins(rs) == IF rs = <<>> THEN <<>> ELSE <<Head(rs).min>> \o RangeMins(Tail(rs))

RECURSIVE DefinedRangeMaxes(_)
DefinedRangeMaxes(rs) ==
  IF rs = <<>> THEN <<>>
  ELSE (IF Head(rs).max = Undefined THEN <<>> ELSE <<Head(rs).max>>)
       \o DefinedRangeMaxes(Tail(rs))

RECURSIVE ParsePriceRanges(_)
ParsePriceRanges(rs) ==
  IF rs = <<>> THEN <<>> ELSE <<parsePriceRange(Head(rs))>> \o ParsePriceRanges(Tail(rs))

RECURSIVE ParseSqftRanges(_)
ParseSqftRanges(rs) ==
  IF rs = <<>> THEN <<>> ELSE <<parseSqftRange(Head(rs))>> \o ParseSqftRanges(Tail(rs))

\* the expand branch shared by the price and sqft handlers
ExpandedBounds(curMin, curMax, clickedRange) ==
  [min |-> IF curMin = Undefined THEN clickedRange.min
           ELSE MathMin(curMin, clickedRange.min),
   max |-> IF clickedRange.max = Undefined
           THEN curMax
           ELSE (IF curMax = Undefined THEN clickedRange.max
                 ELSE MathMax(curMax, clickedRange.max))]

\* the contract branch: bounds recomputed from the remaining (parsed) ranges
ContractedBounds(remaining) ==
  [min |-> MathMinAll(RangeMins(remaining)),
   max |-> IF Len(DefinedRangeMaxes(remaining)) > 0
           THEN MathMaxAll(DefinedRangeMaxes(remaining)) ELSE Undefined]

\* newMinPrice / newMaxPrice of handlePriceRangeChange (both undefined
\* when the handler removes the two bounds)
newPriceBounds(sp, value, checked) ==
  LET minPrice == GetInt(sp, "min_price")
      maxPrice == GetInt(sp, "max_price")
      clickedRange == parsePriceRange(value)
      remainingRanges == without(getSelectedPriceRanges(minPrice, maxPrice), value)
  IN  IF checked THEN ExpandedBounds(minPrice, maxPrice, clickedRange)
      ELSE IF Len(remainingRanges) = 0 THEN [min |-> Undefined, max |-> Undefined]
      ELSE ContractedBounds(ParsePriceRanges(remainingRanges))

handlePriceRangeChange(sp, value, checked) ==
  LET new == newPriceBounds(sp, value, checked)
  IN  updateURL(sp, [k \in {"min_price", "max_price"} |->
                       IF k = "min_price" THEN ToStringOrNull(new.min)
                       ELSE ToStringOrNull(new.max)])

newSqftBounds(sp, value, checked) ==
  LET minSqft == GetInt(sp, "min_sqft")
      maxSqft == GetInt(sp, "max_sqft")
      clickedRange == parseSqftRange(value)
      remainingRanges == without(getSelectedSqftRanges(minSqft, maxSqft), value)
  IN  IF checked THEN ExpandedBounds(minSqft, maxSqft, clickedRange)
      ELSE IF Len(remainingRanges) = 0 THEN [min |-> Undefined, max |-> Undefined]
      ELSE ContractedBounds(ParseSqftRanges(remainingRanges))

handleSqftRangeChange(sp, value, checked) ==
  LET new == newSqftBounds(sp, value, checked)
  IN  updateURL(sp, [k \in {"min_sqft", "max_sqft"} |->
                       IF k = "min_sqft" THEN ToStringOrNull(new.min)
                       ELSE ToStringOrNull(new.max)])

handleSortChange(sp, newSort) ==
  updateURL(sp, [k \in {"sort"} |-> Some(newSort)])

(***************************************************************************)
(* lib/api.ts: the query string of a search request                        *)
(***************************************************************************)
ReqKeys == Keys \cup {"per_page"}

\* if (params.k) for string | undefined
TruthyString(o) == IsSome(o) /\ Val(o) # <<>>

\* if (params.k?.length) for string[] | undefined
NonEmptyList(o) == IsSome(o) /\ Len(Val(o)) > 0

\* if (params.k) for number | undefined
TruthyNumber(x) == x.t = "Infinity" \/ (x.t = "number" /\ x.n # 0)

\* the parameters every search function appends (q .. sort)
BaseQuery(params) ==
  [k \in ReqKeys |->
     CASE k \in {"q", "title", "description", "sort"} ->
            IF TruthyString(params[k]) THEN params[k] ELSE None
       [] k \in {"property_type", "bedrooms"} ->
            IF NonEmptyList(params[k]) THEN Some(join(Val(params[k]), ",")) ELSE None
       [] k \in {"min_price", "max_price", "min_sqft", "max_sqft"} ->
            IF params[k] # Undefined THEN Some(toString(params[k])) ELSE None
       [] OTHER -> None]

\* the search functions that also append page and per_page
PagedQuery(params) ==
  [k \in ReqKeys |->
     IF k \in {"page", "per_page"}
     THEN (IF TruthyNumber(params[k]) THEN Some(toString(params[k])) ELSE None)
     ELSE BaseQuery(params)[k]]

searchProperties(params) ==
  [endpoint |-> "/search", query |-> BaseQuery(params)]

searchPropertiesIntermediateAI(params) ==
  [endpoint |-> "/intermediate_ai/search", query |-> BaseQuery(params)]

searchPropertiesPaged(params) ==
  [endpoint |-> "/search", query |-> PagedQuery(params)]

searchPropertiesBeginnerAI(params) ==
  [endpoint |-> "/beginner_ai/search", query |-> PagedQuery(params)]

searchPropertiesAdvancedAI(params) ==
  [endpoint |-> "/advanced_ai/search", query |-> PagedQuery(params)]

\* x || undefined for a string
OrUndefined(str) == IF str # <<>> THEN Some(str) ELSE None

\* list.length > 0 ? list : undefined
ListOrUndefined(xs) == IF Len(xs) > 0 THEN Some(xs) ELSE None

\* requestParams of performSearch in the traditional, beginner and advanced
\* pages: every field is taken from the parsed URL
URLRequestParams(p) ==
  [ q |-> OrUndefined(p.qParam),
    title |-> OrUndefined(p.titleParam),
    description |-> OrUndefined(p.descriptionParam),
    property_type |-> ListOrUndefined(p.selectedPropertyTypes),
    bedrooms |-> ListOrUndefined(p.selectedBedrooms),
    min_price |-> p.minPrice,
    max_price |-> p.maxPrice,
    min_sqft |-> p.minSqft,
    max_sqft |-> p.maxSqft,
    sort |-> Some(p.sort),
    page |-> p.page,
    per_page |-> Num(10) ]

(***************************************************************************)
(* State                                                                   *)
(***************************************************************************)
VARIABLES
  pageKind,        \* the page that is mounted
  mounted,         \* the mount effects have run
  url,             \* the browser's search params (after router.push)
  rendered,        \* the search params of the last committed render
  query,           \* useState: text of the search box
  searchResults,   \* useState: SearchResponse | null
  facets,          \* useState: Facets | null
  loading,         \* useState
  error,           \* useState: string | null
  interpretedQuery,\* useState: InterpretedQuery | null
  interpreting,    \* useState (beginner page)
  originalQuery,   \* useState (intermediate page)
  summary,         \* useState: SearchSummary | null
  summaryLoading,  \* useState
  isUpdatingURLFromInterpretation, \* useRef
  isHandlingSearchClick,           \* useRef
  pendingQueryRef,                 \* useRef: string | null
  isApplyingInterpretedQuery,      \* useRef (beginner page)
  previousQParam,                  \* useRef (beginner page)
  timers,          \* pending setTimeout(.., 100) callbacks
  calls,           \* performSearch / handleSearchFromChat invocations in flight
  started,         \* performSearch / handleSearchFromChat invocations so far
  authorized,      \* SubscriptionCheck: useState authorized
  bypass,          \* the location contains bypass-subscription
  showModal,       \* SubscriptionCheck: useState showModal
  submitted,       \* history: the text of the last query submission, or null
  allStructured,   \* history: the last interpretation written to the URL had no residual text
  writtenBack,     \* history: the interpretation was written to the URL and no effect has run since
  selection        \* history: the lists and bounds last computed by the facet handlers

vars == << pageKind, mounted, url, rendered, query, searchResults, facets,
           loading, error, interpretedQuery, interpreting, originalQuery,
           summary, summaryLoading, isUpdatingURLFromInterpretation,
           isHandlingSearchClick, pendingQueryRef, isApplyingInterpretedQuery,
           previousQParam, timers, calls, started, authorized, bypass, showModal,
           submitted, allStructured, writtenBack, selection >>

reactState == << query, searchResults, facets, loading, error, interpretedQuery,
                 interpreting, originalQuery, summary, summaryLoading >>

refs == << isUpdatingURLFromInterpretation, isHandlingSearchClick,
           pendingQueryRef, isApplyingInterpretedQuery, previousQParam >>

subscription == << authorized, bypass, showModal >>

(***************************************************************************)
(* Inputs                                                                  *)
(***************************************************************************)
\* option values offered by the facet sidebar (keys of the facets response)
PropertyTypeOptions == { <<"house">> }
BedroomOptions == { <<"0">> }
PriceRangeOptions == { availablePriceRanges[i] : i \in 1..5 }
SqftRangeOptions == { availableSqftRanges[i] : i \in 1..5 }
SortOptions == { <<"price_asc">> }

\* the values an InterpretedQuery (or chat payload) carries
NoInterpretation ==
  [ title |-> <<>>, description |-> <<>>, property_type |-> None,
    bedrooms |-> None, min_price |-> Undefined, max_price |-> Undefined,
    min_sqft |-> Undefined, max_sqft |-> Undefined, sort |-> None ]

\* "Affordable apartment": everything is mapped to structured fields
AffordableApartment ==
  [ NoInterpretation EXCEPT !.property_type = Some(<< <<"apartment">> >>),
                            !.max_price = Num(500000),
                            !.sort = Some(<<"price_asc">>) ]

\* "Family home under 800k": residual text "b", an upper price bound only
FamilyHome ==
  [ NoInterpretation EXCEPT !.title = <<"B">>, !.description = <<"b">>,
                            !.property_type = Some(<< <<"house">>, <<"townhouse">> >>),
                            !.bedrooms = Some(<< <<"3">>, <<"4">>, <<"5">> >>),
                            !.max_price = Num(800000),
                            !.sort = Some(Relevance) ]

\* "Cozy studio": an upper square-footage bound only
CozyStudio ==
  [ NoInterpretation EXCEPT !.property_type = Some(<< <<"apartment">> >>),
                            !.bedrooms = Some(<< <<"1">> >>),
                            !.max_sqft = Num(1200) ]

InterpretedQueries == { AffordableApartment, FamilyHome }

(***************************************************************************)
(* The URL update that writes an interpreted query back                    *)
(* (intermediate page performSearch, beginner handleApplyInterpretedQuery) *)
(***************************************************************************)
\* the update object built from an InterpretedQuery
InterpretedUpdates(interpreted, withPage) ==
  LET searchTerms == IF interpreted.title # <<>> THEN interpreted.title
                     ELSE interpreted.description
      keys == (Keys \ {"page"}) \cup (IF withPage THEN {"page"} ELSE {})
  IN  [k \in keys |->
         CASE k = "q" ->
                IF searchTerms # <<>> THEN Some(trim(toLowerCase(searchTerms))) ELSE None
           [] k = "title" -> OrUndefined(interpreted.title)
           [] k = "description" -> OrUndefined(interpreted.description)
           [] k \in {"property_type", "bedrooms"} ->
                IF NonEmptyList(interpreted[k]) THEN Some(join(Val(interpreted[k]), ","))
                ELSE None
           [] k \in {"min_price", "max_price", "min_sqft", "max_sqft"} ->
                IF interpreted[k] # Undefined THEN Some(toString(interpreted[k])) ELSE None
           [] k = "sort" ->
                IF TruthyString(interpreted.sort) /\ Val(interpreted.sort) # Relevance
                THEN interpreted.sort ELSE None
           [] k = "page" -> Some(<<"1">>)]

(***************************************************************************)
(* The facet sidebar (components/FacetGroup.tsx): a click on an option     *)
(* calls the handler with checked = the option is not selected now.        *)
(* The user clicks on a committed render (rendered = url).                 *)
(***************************************************************************)
Settled == mounted /\ rendered = url

\* the render that follows router.push(newURL): a page commits it later,
\* together with its effects; the hooks on their own have no effect to run,
\* and their re-render is part of the step
Committed(newURL) == IF pageKind = "hooks" THEN newURL ELSE rendered

\* {facets && <FacetsSidebar .../>}
SidebarShown == facets # None

SelectionOf(interpreted) ==
  [ property_type |-> IF IsSome(interpreted.property_type)
                      THEN Val(interpreted.property_type) ELSE <<>>,
    bedrooms |-> IF IsSome(interpreted.bedrooms)
                 THEN Val(interpreted.bedrooms) ELSE <<>>,
    min_price |-> interpreted.min_price, max_price |-> interpreted.max_price,
    min_sqft |-> interpreted.min_sqft, max_sqft |-> interpreted.max_sqft ]

ClickPropertyType(value) ==
  LET checked == ~Includes(GetList(rendered, "property_type"), value)
  IN  /\ Settled /\ SidebarShown
      /\ url' = handlePropertyTypeChange(rendered, value, checked)
      /\ selection' = [selection EXCEPT
                         !.property_type = newPropertyTypes(rendered, value, checked)]
      /\ rendered' = Committed(url')
      /\ UNCHANGED << pageKind, mounted, reactState, refs, timers,
                      calls, started, subscription, submitted, allStructured >>
      /\ writtenBack' = FALSE

ClickBedroom(value) ==
  LET checked == ~Includes(GetList(rendered, "bedrooms"), value)
  IN  /\ Settled /\ SidebarShown
      /\ url' = handleBedroomChange(rendered, value, checked)
      /\ selection' = [selection EXCEPT
                         !.bedrooms = newBedrooms(rendered, value, checked)]
      /\ rendered' = Committed(url')
      /\ UNCHANGED << pageKind, mounted, reactState, refs, timers,
                      calls, started, subscription, submitted, allStructured >>
      /\ writtenBack' = FALSE

ClickPriceRange(value) ==
  LET selectedPriceRanges ==
        getSelectedPriceRanges(GetInt(rendered, "min_price"), GetInt(rendered, "max_price"))
      checked == ~Includes(selectedPriceRanges, value)
      new == newPriceBounds(rendered, value, checked)
  IN  /\ Settled /\ SidebarShown
      /\ url' = handlePriceRangeChange(rendered, value, checked)
      /\ selection' = [selection EXCEPT !.min_price = new.min, !.max_price = new.max]
      /\ rendered' = Committed(url')
      /\ UNCHANGED << pageKind, mounted, reactState, refs, timers,
                      calls, started, subscription, submitted, allStructured >>
      /\ writtenBack' = FALSE

ClickSqftRange(value) ==
  LET selectedSqftRanges ==
        getSelectedSqftRanges(GetInt(rendered, "min_sqft"), GetInt(rendered, "max_sqft"))
      checked == ~Includes(selectedSqftRanges, value)
      new == newSqftBounds(rendered, value, checked)
  IN  /\ Settled /\ SidebarShown
      /\ url' = handleSqftRangeChange(rendered, value, checked)
      /\ selection' = [selection EXCEPT !.min_sqft = new.min, !.max_sqft = new.max]
      /\ rendered' = Committed(url')
      /\ UNCHANGED << pageKind, mounted, reactState, refs, timers,
                      calls, started, subscription, submitted, allStructured >>
      /\ writtenBack' = FALSE

\* {searchResults ? <ResultsHeader onSortChange=.../>}: shown with results
ResultsShown == ~loading /\ error = None /\ searchResults # None

ChangeSort(newSort) ==
  /\ Settled /\ ResultsShown
  /\ url' = handleSortChange(rendered, newSort)
  /\ rendered' = Committed(url')
  /\ UNCHANGED << pageKind, mounted, reactState, refs, timers,
                  calls, started, subscription, submitted, allStructured, selection >>
  /\ writtenBack' = FALSE

(***************************************************************************)
(* FacetSpec: the hooks alone, on a URL as an interpretation leaves it     *)
(***************************************************************************)
FacetStartQueries == { NoInterpretation, FamilyHome, CozyStudio }

ShownFacets == [of |-> "catalog"]

FacetInit ==
  /\ pageKind = "hooks"
  /\ mounted = TRUE
  /\ \E interpreted \in FacetStartQueries :
       /\ url = updateURL(EmptyURL, InterpretedUpdates(interpreted, FALSE))
       /\ selection = SelectionOf(interpreted)
  /\ rendered = url
  /\ query = <<>>
  /\ searchResults = Some([nonEmpty |-> TRUE, interpreted_query |-> None])
  /\ facets = Some(ShownFacets)
  /\ loading = FALSE
  /\ error = None
  /\ interpretedQuery = None
  /\ interpreting = FALSE
  /\ originalQuery = None
  /\ summary = None
  /\ summaryLoading = FALSE
  /\ isUpdatingURLFromInterpretation = FALSE
  /\ isHandlingSearchClick = FALSE
  /\ pendingQueryRef = None
  /\ isApplyingInterpretedQuery = FALSE
  /\ previousQParam = <<>>
  /\ timers = 0
  /\ calls = <<>>
  /\ started = 0
  /\ authorized = FALSE
  /\ bypass = FALSE
  /\ showModal = FALSE
  /\ submitted = None
  /\ allStructured = FALSE
  /\ writtenBack = FALSE

FacetNext ==
  \/ \E v \in PropertyTypeOptions : ClickPropertyType(v)
  \/ \E v \in BedroomOptions : ClickBedroom(v)
  \/ \E v \in PriceRangeOptions : ClickPriceRange(v)
  \/ \E v \in SqftRangeOptions : ClickSqftRange(v)
  \/ \E s \in SortOptions : ChangeSort(s)

FacetSpec == FacetInit /\ [][FacetNext]_vars

(***************************************************************************)
(* Properties of the facet handlers (FacetSpec)                            *)
(***************************************************************************)
\* min <= max when both bounds are numbers
Ordered(lo, hi) == (IsNum(lo) /\ IsNum(hi)) => lo.n <= hi.n

BoundsOrdered(sp) ==
  /\ Ordered(GetInt(sp, "min_price"), GetInt(sp, "max_price"))
  /\ Ordered(GetInt(sp, "min_sqft"), GetInt(sp, "max_sqft"))

\* C7: from a URL whose price and square-footage bounds satisfy min <= max
\* (a URL with only a max bound included), every call of
\* handlePriceRangeChange or handleSqftRangeChange, checked or unchecked, for
\* any of the five buckets, pushes a URL whose bounds satisfy min <= max.
C7_OrderingPreserved == [][BoundsOrdered(url) => BoundsOrdered(url')]_vars

\* the request a search function builds from what the hooks parse of sp
RequestOf(sp) == searchProperties(URLRequestParams(useParsedSearchParams(sp))).query

DigitsOnly(o) == IsSome(o) /\ Val(o) # <<>> /\ \A i \in 1..Len(Val(o)) : Val(o)[i] \in Digits

\* C10: for every filter state the facet handlers write, property_type and
\* bedrooms are one comma-separated string each that decodes to the same
\* ordered list, a numeric bound is a plain integer that decodes to the same
\* value (0 included), and an empty list or absent bound is in neither the
\* URL nor the search request.
C10_EncodingRoundTrips ==
  LET p == useParsedSearchParams(url)
      request == RequestOf(url)
  IN  /\ p.selectedPropertyTypes = selection.property_type
      /\ p.selectedBedrooms = selection.bedrooms
      /\ p.minPrice = selection.min_price /\ p.maxPrice = selection.max_price
      /\ p.minSqft = selection.min_sqft /\ p.maxSqft = selection.max_sqft
      /\ \A k \in {"property_type", "bedrooms"} :
           /\ url[k] = JoinOrNull(selection[k])
           /\ (selection[k] = <<>>) <=> (url[k] = None)
           /\ request[k] = url[k]
      /\ \A k \in {"min_price", "max_price", "min_sqft", "max_sqft"} :
           /\ (selection[k] = Undefined) <=> (url[k] = None)
           /\ url[k] # None => DigitsOnly(url[k])
           /\ request[k] = url[k]

\* a state where the handlers have written lists of two values and a bound 0
C10_Witness ==
  /\ Len(selection.property_type) >= 2
  /\ selection.bedrooms # <<>>
  /\ selection.min_price = Num(0) /\ url["min_price"] = Some(<<"0">>)
  /\ selection.max_sqft = Undefined /\ selection.min_sqft # Undefined

(***************************************************************************)
(* The pages                                                               *)
(***************************************************************************)
\* performSearch / handleSearchFromChat invocations followed from a page load
MaxCalls == 3

\* performSearch / handleSearchFromChat invocations awaiting a response at once
MaxPending == 1

\* setTimeout callbacks that may be pending at once
MaxTimers == 1

\* texts the user types, example queries, related searches and chat queries
TypedQueries == { <<"A", "b">> }
ExampleQueries == { <<"A", "b">> }
SearchIdeas == << <<"B">> >>

FailedToLoad == "Failed to load properties. Please check that the backend server is running."
FailedToSearch == "Failed to search properties. Please try again."

\* the responses the back end may give to a search request: results or
\* none, and (interpreting end point with a q only) an interpreted query
SearchResponses(req) ==
  LET interprets == req.endpoint = "/intermediate_ai/search" /\ IsSome(req.query["q"])
  IN  { [nonEmpty |-> TRUE, interpreted_query |-> iq] :
          iq \in IF interprets THEN {None} \cup { Some(x) : x \in InterpretedQueries }
                 ELSE {None} }
      \cup { [nonEmpty |-> FALSE, interpreted_query |-> None] :
               x \in IF req.endpoint = "/intermediate_ai/search" THEN {1} ELSE {} }

\* results.facets
FacetsOf(resp) == ShownFacets

NoSearchParams ==
  [ q |-> None, title |-> None, description |-> None, property_type |-> None,
    bedrooms |-> None, min_price |-> Undefined, max_price |-> Undefined,
    min_sqft |-> Undefined, max_sqft |-> Undefined, sort |-> None,
    page |-> Undefined, per_page |-> Undefined ]

\* an invocation waiting for a response
Call(origin, sp, req, clicked, eq, et, ed, interp, payload) ==
  [ origin |-> origin,        \* "effect", "click" or "chat"
    atUrl |-> sp,             \* the searchParams of the closure
    req |-> req,              \* the search request sent
    pc |-> "search",          \* the response awaited: search, summary, interpret
    clicked |-> clicked,      \* wasSearchButtonClicked
    effectiveQuery |-> eq, effectiveTitle |-> et, effectiveDescription |-> ed,
    interp |-> interp,        \* the interpretation promise: none, pending, settled
    interpResult |-> None,    \* its value once settled (null on failure)
    payload |-> payload,      \* the chat payload
    typed |-> submitted',     \* history: the submission this search follows
    afterStructured |-> allStructured' ]

RemoveAt(seq, i) == SubSeq(seq, 1, i - 1) \o SubSeq(seq, i + 1, Len(seq))

\* the update of handleSearch / handleExampleQueryClick in the traditional
\* and beginner pages (non-empty query)
NewQueryUpdates(text) ==
  [k \in Keys |->
     CASE k = "q" -> Some(trim(toLowerCase(text)))
       [] k = "title" -> Some(toTitleCase(trim(text)))
       [] k = "description" -> Some(trim(toLowerCase(text)))
       [] k = "page" -> Some(<<"1">>)
       [] OTHER -> None]

\* ... and for an empty query
ClearQueryUpdates ==
  [k \in Keys |-> IF k = "page" THEN Some(<<"1">>) ELSE None]

\* the ghost record of a submission
SubmissionOf(text) == IF trim(text) # <<>> THEN Some(text) ELSE None

(***************************************************************************)
(* Traditional page (app/traditional/page.tsx)                             *)
(***************************************************************************)
\* the two searchParams effects: sync query with q, then performSearch()
RunEffects_T ==
  LET p == useParsedSearchParams(url)
      req == searchPropertiesPaged(URLRequestParams(p))
  IN  /\ pageKind = "traditional"
      /\ ~mounted \/ rendered # url
      /\ started < MaxCalls /\ Len(calls) < MaxPending
      /\ rendered' = url /\ mounted' = TRUE
      /\ query' = p.qParam
      /\ loading' = TRUE /\ error' = None
      /\ UNCHANGED << submitted, allStructured, writtenBack >>
      /\ started' = started + 1
      /\ calls' = Append(calls, Call("effect", url, req, FALSE, p.qParam,
                                     p.titleParam, p.descriptionParam, "none", None))
      /\ UNCHANGED << pageKind, url, searchResults, facets, interpretedQuery,
                      interpreting, originalQuery, summary, summaryLoading, refs,
                      timers, subscription, selection >>

SearchSuccess_T(i, resp) ==
  /\ pageKind = "traditional"
  /\ calls[i].pc = "search"
  /\ searchResults' = Some(resp) /\ facets' = Some(FacetsOf(resp))
  /\ error' = None /\ loading' = FALSE
  /\ UNCHANGED started
  /\ calls' = RemoveAt(calls, i)
  /\ UNCHANGED << pageKind, mounted, url, rendered, query, interpretedQuery,
                  interpreting, originalQuery, summary, summaryLoading, refs,
                  timers, subscription, submitted, allStructured, writtenBack, selection >>

\* a variant of the catch block that keeps the result list
SearchFailureKeepingResults_T(i) ==
  /\ pageKind = "traditional"
  /\ calls[i].pc = "search"
  /\ error' = Some(FailedToLoad) /\ loading' = FALSE
  /\ UNCHANGED started
  /\ calls' = RemoveAt(calls, i)
  /\ UNCHANGED << pageKind, mounted, url, rendered, query, searchResults, facets,
                  interpretedQuery, interpreting, originalQuery, summary,
                  summaryLoading, refs, timers, subscription, submitted,
                  allStructured, writtenBack, selection >>

SearchFailure_T(i) ==
  /\ pageKind = "traditional"
  /\ calls[i].pc = "search"
  /\ error' = Some(FailedToLoad) /\ searchResults' = None /\ loading' = FALSE
  /\ UNCHANGED started
  /\ calls' = RemoveAt(calls, i)
  /\ UNCHANGED << pageKind, mounted, url, rendered, query, facets,
                  interpretedQuery, interpreting, originalQuery, summary,
                  summaryLoading, refs, timers, subscription, submitted,
                  allStructured, writtenBack, selection >>

\* SearchBox onChange={setQuery}
TypeQuery(text) ==
  /\ pageKind \in {"traditional", "beginner", "intermediate"}
  /\ Settled
  /\ query # text
  /\ query' = text
  /\ UNCHANGED << pageKind, mounted, url, rendered, searchResults, facets,
                  loading, error, interpretedQuery, interpreting, originalQuery,
                  summary, summaryLoading, refs, timers, calls, started, subscription,
                  submitted, allStructured, writtenBack, selection >>

handleSearch_T ==
  /\ pageKind = "traditional"
  /\ Settled
  /\ url' = IF trim(query) # <<>> THEN updateURL(rendered, NewQueryUpdates(query))
            ELSE updateURL(rendered, ClearQueryUpdates)
  /\ submitted' = SubmissionOf(query)
  /\ allStructured' = FALSE
  /\ writtenBack' = FALSE
  /\ selection' = SelectionOf(NoInterpretation)
  /\ UNCHANGED << pageKind, mounted, rendered, reactState, refs, timers, calls, started,
                  subscription >>

handleExampleQueryClick_T(exampleQuery) ==
  /\ pageKind = "traditional"
  /\ Settled
  /\ query' = exampleQuery
  /\ url' = IF trim(exampleQuery) # <<>>
            THEN updateURL(rendered, NewQueryUpdates(exampleQuery)) ELSE url
  /\ submitted' = SubmissionOf(exampleQuery)
  /\ allStructured' = FALSE
  /\ writtenBack' = FALSE
  /\ selection' = SelectionOf(NoInterpretation)
  /\ UNCHANGED << pageKind, mounted, rendered, searchResults, facets, loading,
                  error, interpretedQuery, interpreting, originalQuery, summary,
                  summaryLoading, refs, timers, calls, started, subscription >>

(***************************************************************************)
(* Beginner page (the second page component of app/advanced_ai/page.tsx)   *)
(***************************************************************************)
\* shouldInterpret without the qParamChanged conjunct
shouldInterpretWheneverQuery(qParam) ==
  ~isApplyingInterpretedQuery /\ qParam # <<>>

\* const shouldInterpret = !shouldSkipInterpretation && qParam && qParamChanged
shouldInterpret(qParam) ==
  ~isApplyingInterpretedQuery /\ qParam # <<>> /\ qParam # previousQParam

\* the query-sync effect, then the searchParams effect: performSearch()
RunEffects_B ==
  LET p == useParsedSearchParams(url)
      req == searchPropertiesBeginnerAI(URLRequestParams(p))
      interpret == shouldInterpret(p.qParam)
  IN  /\ pageKind = "beginner"
      /\ ~mounted \/ rendered # url
      /\ started < MaxCalls /\ Len(calls) < MaxPending
      /\ rendered' = url /\ mounted' = TRUE
      /\ query' = p.qParam
      /\ loading' = TRUE /\ error' = None /\ interpretedQuery' = None
      /\ previousQParam' = p.qParam
      /\ interpreting' = IF interpret THEN TRUE ELSE interpreting
      /\ UNCHANGED << submitted, allStructured, writtenBack >>
      /\ started' = started + 1
      /\ calls' = Append(calls, Call("effect", url, req, FALSE, p.qParam,
                                     p.titleParam, p.descriptionParam,
                                     IF interpret THEN "pending" ELSE "none", None))
      /\ UNCHANGED << pageKind, url, searchResults, facets, originalQuery,
                      summary, summaryLoading, isUpdatingURLFromInterpretation,
                      isHandlingSearchClick, pendingQueryRef,
                      isApplyingInterpretedQuery, timers, subscription, selection >>

\* a variant that shows the results only once the interpretation is in too
SearchSuccessAwaitingBoth_B(i, resp) ==
  LET c == calls[i]
  IN  /\ pageKind = "beginner"
      /\ c.pc = "search"
      /\ searchResults' = IF c.interp = "pending" THEN searchResults ELSE Some(resp)
      /\ facets' = IF c.interp = "pending" THEN facets ELSE Some(FacetsOf(resp))
      /\ error' = None /\ loading' = (c.interp = "pending")
      /\ isApplyingInterpretedQuery' = FALSE
      /\ interpretedQuery' = IF c.interp = "settled" /\ IsSome(c.interpResult)
                             THEN c.interpResult ELSE interpretedQuery
      /\ UNCHANGED started
      /\ calls' = IF c.interp = "pending"
                  THEN [calls EXCEPT ![i].pc = "interpret"]
                  ELSE RemoveAt(calls, i)
      /\ UNCHANGED << pageKind, mounted, url, rendered, query, interpreting,
                      originalQuery, summary, summaryLoading,
                      isUpdatingURLFromInterpretation, isHandlingSearchClick,
                      pendingQueryRef, previousQParam, timers, subscription,
                      submitted, allStructured, writtenBack, selection >>

\* await searchPromise resolves; the callback on interpretPromise runs at once
\* when that promise has already settled
SearchSuccess_B(i, resp) ==
  LET c == calls[i]
  IN  /\ pageKind = "beginner"
      /\ c.pc = "search"
      /\ searchResults' = Some(resp) /\ facets' = Some(FacetsOf(resp))
      /\ error' = None /\ loading' = FALSE
      /\ isApplyingInterpretedQuery' = FALSE
      /\ interpretedQuery' = IF c.interp = "settled" /\ IsSome(c.interpResult)
                             THEN c.interpResult ELSE interpretedQuery
      /\ UNCHANGED started
      /\ calls' = IF c.interp = "pending"
                  THEN [calls EXCEPT ![i].pc = "interpret"]
                  ELSE RemoveAt(calls, i)
      /\ UNCHANGED << pageKind, mounted, url, rendered, query, interpreting,
                      originalQuery, summary, summaryLoading,
                      isUpdatingURLFromInterpretation, isHandlingSearchClick,
                      pendingQueryRef, previousQParam, timers, subscription,
                      submitted, allStructured, writtenBack, selection >>

\* await searchPromise rejects: the interpretation result is never consumed
SearchFailure_B(i) ==
  LET c == calls[i]
  IN  /\ pageKind = "beginner"
      /\ c.pc = "search"
      /\ error' = Some(FailedToLoad) /\ searchResults' = None /\ loading' = FALSE
      /\ UNCHANGED started
      /\ calls' = IF c.interp = "pending"
                  THEN [calls EXCEPT ![i].pc = "abandoned"]
                  ELSE RemoveAt(calls, i)
      /\ UNCHANGED << pageKind, mounted, url, rendered, query, facets,
                      interpretedQuery, interpreting, originalQuery, summary,
                      summaryLoading, refs, timers, subscription, submitted,
                      allStructured, writtenBack, selection >>

\* a variant without the .catch: a failed interpretation becomes the error
InterpretSettlePropagating_B(i, result) ==
  LET c == calls[i]
  IN  /\ pageKind = "beginner"
      /\ c.interp = "pending"
      /\ interpreting' = FALSE
      /\ error' = IF IsSome(result) THEN error ELSE Some(FailedToLoad)
      /\ searchResults' = IF IsSome(result) THEN searchResults ELSE None
      /\ interpretedQuery' = IF c.pc = "interpret" /\ IsSome(result)
                             THEN result ELSE interpretedQuery
      /\ UNCHANGED started
      /\ calls' = IF c.pc = "search"
                  THEN [calls EXCEPT ![i].interp = "settled",
                                     ![i].interpResult = result]
                  ELSE RemoveAt(calls, i)
      /\ UNCHANGED << pageKind, mounted, url, rendered, query, facets, loading,
                      originalQuery, summary, summaryLoading, refs, timers,
                      subscription, submitted, allStructured, writtenBack, selection >>

\* interpretQueryBeginnerAI(qParam) settles: result is an interpreted query,
\* or null when the request failed (.catch); .finally clears interpreting
InterpretSettle_B(i, result) ==
  LET c == calls[i]
  IN  /\ pageKind = "beginner"
      /\ c.interp = "pending"
      /\ interpreting' = FALSE
      /\ interpretedQuery' = IF c.pc = "interpret" /\ IsSome(result)
                             THEN result ELSE interpretedQuery
      /\ UNCHANGED started
      /\ calls' = IF c.pc = "search"
                  THEN [calls EXCEPT ![i].interp = "settled",
                                     ![i].interpResult = result]
                  ELSE RemoveAt(calls, i)
      /\ UNCHANGED << pageKind, mounted, url, rendered, query, searchResults,
                      facets, loading, error, originalQuery, summary,
                      summaryLoading, refs, timers, subscription, submitted,
                      allStructured, writtenBack, selection >>

InterpretSuccess_B(i, interpreted) == InterpretSettle_B(i, Some(interpreted))

InterpretFailure_B(i) == InterpretSettle_B(i, None)

handleSearch_B ==
  /\ pageKind = "beginner"
  /\ Settled
  /\ interpretedQuery' = None /\ interpreting' = FALSE
  /\ url' = IF trim(query) # <<>> THEN updateURL(rendered, NewQueryUpdates(query))
            ELSE updateURL(rendered, ClearQueryUpdates)
  /\ submitted' = SubmissionOf(query)
  /\ allStructured' = FALSE
  /\ writtenBack' = FALSE
  /\ selection' = SelectionOf(NoInterpretation)
  /\ UNCHANGED << pageKind, mounted, rendered, query, searchResults, facets,
                  loading, error, originalQuery, summary, summaryLoading, refs,
                  timers, calls, started, subscription >>

handleExampleQueryClick_B(exampleQuery) ==
  /\ pageKind = "beginner"
  /\ Settled
  /\ query' = exampleQuery
  /\ interpretedQuery' = None /\ interpreting' = FALSE
  /\ url' = IF trim(exampleQuery) # <<>>
            THEN updateURL(rendered, NewQueryUpdates(exampleQuery)) ELSE url
  /\ submitted' = SubmissionOf(exampleQuery)
  /\ allStructured' = FALSE
  /\ writtenBack' = FALSE
  /\ selection' = SelectionOf(NoInterpretation)
  /\ UNCHANGED << pageKind, mounted, rendered, searchResults, facets, loading,
                  error, originalQuery, summary, summaryLoading, refs, timers,
                  calls, started, subscription >>

SameElements(xs, ys) ==
  /\ Len(xs) = Len(ys)
  /\ { xs[i] : i \in 1..Len(xs) } = { ys[i] : i \in 1..Len(ys) }

\* an interpreted bound that is undefined is compared as null, which no
\* parsed bound equals
BoundMatches(interpretedBound, urlBound) ==
  interpretedBound # Undefined /\ interpretedBound = urlBound

interpretedQueryMatchesURL(interpreted) ==
  LET p == useParsedSearchParams(rendered)
      ListOf(o) == IF IsSome(o) THEN Val(o) ELSE <<>>
  IN  /\ SameElements(p.selectedPropertyTypes, ListOf(interpreted.property_type))
      /\ SameElements(p.selectedBedrooms, ListOf(interpreted.bedrooms))
      /\ BoundMatches(interpreted.min_price, p.minPrice)
      /\ BoundMatches(interpreted.max_price, p.maxPrice)
      /\ BoundMatches(interpreted.min_sqft, p.minSqft)
      /\ BoundMatches(interpreted.max_sqft, p.maxSqft)
      /\ p.titleParam = interpreted.title
      /\ p.descriptionParam = interpreted.description
      /\ p.sort = (IF Truthy(interpreted.sort) THEN Val(interpreted.sort) ELSE Relevance)

shouldShowBreadcrumb ==
  IsSome(interpretedQuery) /\ ~interpretedQueryMatchesURL(Val(interpretedQuery))

\* the search button of the QueryBreadcrumb
handleApplyInterpretedQuery_B ==
  /\ pageKind = "beginner"
  /\ Settled
  /\ shouldShowBreadcrumb
  /\ isApplyingInterpretedQuery' = TRUE
  /\ url' = updateURL(rendered, InterpretedUpdates(Val(interpretedQuery), TRUE))
  /\ allStructured' = (Val(interpretedQuery).title = <<>>
                       /\ Val(interpretedQuery).description = <<>>)
  /\ writtenBack' = FALSE
  /\ selection' = SelectionOf(Val(interpretedQuery))
  /\ UNCHANGED << pageKind, mounted, rendered, reactState,
                  isUpdatingURLFromInterpretation, isHandlingSearchClick,
                  pendingQueryRef, previousQParam, timers, calls, started, subscription,
                  submitted >>

(***************************************************************************)
(* Intermediate page (app/intermediate_ai/page.tsx)                        *)
(***************************************************************************)
\* subscriptionCheckRef.current.checkSubscription()
\* the modal is shown, but the caller is let through
checkSubscriptionLettingThrough == TRUE

checkSubscription == bypass \/ authorized

\* the update of handleSearch, handleExampleQueryClick and the related
\* search buttons (non-empty query): page is left as it is
NewQueryUpdates_I(text) ==
  [k \in Keys \ {"page"} |->
     IF k = "q" THEN Some(trim(toLowerCase(text))) ELSE None]

ClearQueryUpdates_I == [k \in Keys \ {"page"} |-> None]

HasFilters(o) ==
  \/ NonEmptyList(o.property_type) \/ NonEmptyList(o.bedrooms)
  \/ o.min_price # Undefined \/ o.max_price # Undefined
  \/ o.min_sqft # Undefined \/ o.max_sqft # Undefined

\* the effective query, title and description of performSearch
effectiveQuery(p, was, pending) ==
  IF was /\ IsSome(pending) THEN Val(pending) ELSE p.qParam

effectiveTitle(p, was, pending) ==
  IF was /\ IsSome(pending) THEN toTitleCase(trim(Val(pending))) ELSE p.titleParam

effectiveDescription(p, was, pending) ==
  IF was /\ IsSome(pending) THEN trim(toLowerCase(Val(pending)))
  ELSE p.descriptionParam

\* requestParams of performSearch: q only when the search button was clicked
requestParams_I(p, was, query_, title, description) ==
  [ NoSearchParams EXCEPT
      !.q = IF was THEN OrUndefined(query_) ELSE None,
      !.title = OrUndefined(title),
      !.description = OrUndefined(description),
      !.property_type = ListOrUndefined(p.selectedPropertyTypes),
      !.bedrooms = ListOrUndefined(p.selectedBedrooms),
      !.min_price = p.minPrice, !.max_price = p.maxPrice,
      !.min_sqft = p.minSqft, !.max_sqft = p.maxSqft,
      !.sort = Some(p.sort) ]

\* wasSearchButtonClicked ? searchPropertiesIntermediateAI : searchProperties
searchRequest_I(was, params) ==
  IF was THEN searchPropertiesIntermediateAI(params) ELSE searchProperties(params)

\* performSearch() up to its first await, given what it computed
startSearch_I(sp, was, origin, iq0, oq0, query_, title, description, req) ==
  /\ started < MaxCalls /\ Len(calls) < MaxPending
  /\ loading' = TRUE /\ error' = None
  /\ interpretedQuery' = IF was THEN None ELSE iq0
  /\ summary' = IF was THEN None ELSE summary
  /\ originalQuery' = IF was /\ query_ # <<>> THEN Some(query_) ELSE oq0
  /\ started' = started + 1
  /\ calls' = Append(calls, Call(origin, sp, req, was, query_, title,
                                 description, "none", None))

performSearchWith_I(sp, p, was, origin, iq0, oq0, query_, title, description) ==
  startSearch_I(sp, was, origin, iq0, oq0, query_, title, description,
                searchRequest_I(was, requestParams_I(p, was, query_, title,
                                                     description)))

\* performSearch() of the render whose searchParams are sp, read with the
\* refs holding was and pending; iq0 and oq0 are interpretedQuery and
\* originalQuery as the caller has set them
performSearchParsed_I(sp, p, was, pending, origin, iq0, oq0) ==
  performSearchWith_I(sp, p, was, origin, iq0, oq0,
                      effectiveQuery(p, was, pending),
                      effectiveTitle(p, was, pending),
                      effectiveDescription(p, was, pending))

performSearch_I(sp, was, pending, origin, iq0, oq0) ==
  performSearchParsed_I(sp, useParsedSearchParams(sp), was, pending, origin,
                        iq0, oq0)

\* the query-sync effect, then the searchParams effect
RunEffects_I ==
  /\ pageKind = "intermediate"
  /\ ~mounted \/ rendered # url
  /\ rendered' = url /\ mounted' = TRUE
  /\ query' = GetOr(url, "q", <<>>)
  /\ UNCHANGED << submitted, allStructured >>
  /\ writtenBack' = FALSE
  /\ IF isUpdatingURLFromInterpretation
     THEN UNCHANGED << searchResults, facets, loading, error, interpretedQuery,
                       originalQuery, summary, calls, started, isHandlingSearchClick >>
     ELSE IF isHandlingSearchClick
     THEN /\ isHandlingSearchClick' = FALSE
          /\ UNCHANGED << searchResults, facets, loading, error, interpretedQuery,
                          originalQuery, summary, calls, started >>
     ELSE /\ performSearch_I(url, FALSE, pendingQueryRef, "effect",
                             interpretedQuery, originalQuery)
          /\ UNCHANGED << searchResults, facets, isHandlingSearchClick >>
  /\ UNCHANGED << pageKind, url, interpreting, summaryLoading,
                  isUpdatingURLFromInterpretation, pendingQueryRef,
                  isApplyingInterpretedQuery, previousQParam, timers,
                  subscription, selection >>

\* a new query submitted from the render whose searchParams are `rendered`
SubmitQuery_I(text) ==
  /\ pendingQueryRef' = Some(trim(text))
  /\ isHandlingSearchClick' = TRUE
  /\ url' = updateURL(rendered, NewQueryUpdates_I(text))
  /\ submitted' = Some(text)
  /\ allStructured' = FALSE
  /\ writtenBack' = FALSE
  /\ selection' = SelectionOf(NoInterpretation)
  /\ performSearch_I(rendered, TRUE, Some(trim(text)), "click", None, None)

\* checkSubscription() returned false: the modal is shown, nothing else
Blocked_I ==
  /\ showModal' = TRUE
  /\ UNCHANGED << pageKind, mounted, url, rendered, reactState, refs, timers,
                  calls, started, authorized, bypass, submitted, allStructured,
                    writtenBack, selection >>

handleSearch_I ==
  /\ pageKind = "intermediate"
  /\ Settled
  /\ IF ~checkSubscription THEN Blocked_I
     ELSE /\ IF trim(query) # <<>>
             THEN SubmitQuery_I(query)
             ELSE /\ pendingQueryRef' = None
                  /\ url' = updateURL(rendered, ClearQueryUpdates_I)
                  /\ interpretedQuery' = None /\ originalQuery' = None
                  /\ submitted' = None /\ allStructured' = FALSE
                  /\ writtenBack' = FALSE
                  /\ selection' = SelectionOf(NoInterpretation)
                  /\ UNCHANGED << loading, error, summary, calls, started,
                                  isHandlingSearchClick >>
          /\ UNCHANGED << pageKind, mounted, rendered, query, searchResults,
                          facets, interpreting, summaryLoading,
                          isUpdatingURLFromInterpretation,
                          isApplyingInterpretedQuery, previousQParam, timers,
                          subscription >>

handleExampleQueryClick_I(exampleQuery) ==
  /\ pageKind = "intermediate"
  /\ Settled
  /\ IF ~checkSubscription THEN Blocked_I
     ELSE /\ query' = exampleQuery
          /\ IF trim(exampleQuery) # <<>>
             THEN SubmitQuery_I(exampleQuery)
             ELSE /\ interpretedQuery' = None /\ originalQuery' = None
                  /\ UNCHANGED << url, loading, error, summary, calls, started,
                                  isHandlingSearchClick, pendingQueryRef,
                                  submitted, allStructured, writtenBack, selection >>
          /\ UNCHANGED << pageKind, mounted, rendered, searchResults, facets,
                          interpreting, summaryLoading,
                          isUpdatingURLFromInterpretation,
                          isApplyingInterpretedQuery, previousQParam, timers,
                          subscription >>

\* the related-search buttons under a summary that carries search ideas
RelatedSearchShown ==
  /\ ~summaryLoading
  /\ IsSome(summary)
  /\ Len(Val(summary).search_ideas) > 0

RelatedSearchClick_I(idea) ==
  /\ pageKind = "intermediate"
  /\ Settled
  /\ RelatedSearchShown
  /\ IF ~checkSubscription THEN Blocked_I
     ELSE /\ SubmitQuery_I(idea)
          /\ UNCHANGED << pageKind, mounted, rendered, query, searchResults,
                          facets, interpreting, summaryLoading,
                          isUpdatingURLFromInterpretation,
                          isApplyingInterpretedQuery, previousQParam, timers,
                          subscription >>

\* the search response of performSearch arrives
SearchSuccess_I(i, resp) ==
  LET c == calls[i]
      p == useParsedSearchParams(c.atUrl)
      interpreted == resp.interpreted_query
      hasTextQuery == IF IsSome(interpreted)
                      THEN Val(interpreted).title # <<>> \/ Val(interpreted).description # <<>>
                      ELSE \/ c.effectiveQuery # <<>> \/ c.effectiveTitle # <<>>
                           \/ c.effectiveDescription # <<>>
      hasFilters == IF IsSome(interpreted) THEN HasFilters(Val(interpreted))
                    ELSE HasFilters(URLRequestParams(p))
      hasQuery == hasTextQuery \/ hasFilters
      writeBack == c.clicked /\ IsSome(interpreted)
      fetchSummary == c.clicked /\ resp.nonEmpty /\ hasQuery
  IN  /\ pageKind = "intermediate"
      /\ c.pc = "search"
      /\ writeBack => timers < MaxTimers
      /\ searchResults' = Some(resp) /\ facets' = Some(FacetsOf(resp))
      /\ error' = None /\ loading' = FALSE
      /\ IF writeBack
         THEN /\ interpretedQuery' = interpreted
              /\ url' = updateURL(c.atUrl, InterpretedUpdates(Val(interpreted), FALSE))
              /\ isUpdatingURLFromInterpretation' = TRUE
              /\ timers' = timers + 1
              /\ pendingQueryRef' = None
              /\ allStructured' = (Val(interpreted).title = <<>>
                                   /\ Val(interpreted).description = <<>>)
              /\ writtenBack' = TRUE
              /\ selection' = SelectionOf(Val(interpreted))
         ELSE UNCHANGED << interpretedQuery, url, isUpdatingURLFromInterpretation,
                           timers, pendingQueryRef, allStructured, writtenBack, selection >>
      /\ IF fetchSummary
         THEN /\ summaryLoading' = TRUE
              /\ UNCHANGED started
              /\ calls' = [calls EXCEPT ![i].pc = "summary"]
              /\ UNCHANGED << summary, isHandlingSearchClick >>
         ELSE /\ UNCHANGED started
              /\ calls' = RemoveAt(calls, i)
              /\ summary' = IF c.clicked THEN None ELSE summary
              /\ isHandlingSearchClick' = IF c.clicked THEN FALSE
                                          ELSE isHandlingSearchClick
              /\ UNCHANGED summaryLoading
      /\ UNCHANGED << pageKind, mounted, rendered, query, interpreting,
                      originalQuery, isApplyingInterpretedQuery, previousQParam,
                      subscription, submitted >>

\* the search request of performSearch fails (catch)
SearchFailure_I(i) ==
  LET c == calls[i]
  IN  /\ pageKind = "intermediate"
      /\ c.pc = "search"
      /\ error' = Some(FailedToLoad) /\ searchResults' = None
      /\ summary' = None /\ loading' = FALSE
      /\ isHandlingSearchClick' = IF c.clicked THEN FALSE ELSE isHandlingSearchClick
      /\ UNCHANGED started
      /\ calls' = RemoveAt(calls, i)
      /\ UNCHANGED << pageKind, mounted, url, rendered, query, facets,
                      interpretedQuery, interpreting, originalQuery,
                      summaryLoading, isUpdatingURLFromInterpretation,
                      pendingQueryRef, isApplyingInterpretedQuery, previousQParam,
                      timers, subscription, submitted, allStructured, writtenBack, selection >>

\* getSearchSummaryIntermediateAI resolves
SummarySuccess_I(i, search_ideas) ==
  /\ pageKind = "intermediate"
  /\ calls[i].pc = "summary"
  /\ summary' = Some([summary |-> "text", search_ideas |-> search_ideas])
  /\ summaryLoading' = FALSE
  /\ isHandlingSearchClick' = FALSE
  /\ UNCHANGED started
  /\ calls' = RemoveAt(calls, i)
  /\ UNCHANGED << pageKind, mounted, url, rendered, query, searchResults, facets,
                  loading, error, interpretedQuery, interpreting, originalQuery,
                  isUpdatingURLFromInterpretation, pendingQueryRef,
                  isApplyingInterpretedQuery, previousQParam, timers,
                  subscription, submitted, allStructured, writtenBack, selection >>

\* a variant whose summary failure reaches the outer catch
SummaryFailurePropagating_I(i) ==
  /\ pageKind = "intermediate"
  /\ calls[i].pc = "summary"
  /\ error' = Some(FailedToLoad) /\ searchResults' = None
  /\ summary' = None
  /\ summaryLoading' = FALSE
  /\ isHandlingSearchClick' = FALSE
  /\ UNCHANGED started
  /\ calls' = RemoveAt(calls, i)
  /\ UNCHANGED << pageKind, mounted, url, rendered, query, facets, loading,
                  interpretedQuery, interpreting, originalQuery,
                  isUpdatingURLFromInterpretation, pendingQueryRef,
                  isApplyingInterpretedQuery, previousQParam, timers,
                  subscription, submitted, allStructured, writtenBack, selection >>

\* getSearchSummaryIntermediateAI rejects (inner catch)
SummaryFailure_I(i) ==
  /\ pageKind = "intermediate"
  /\ calls[i].pc = "summary"
  /\ summary' = None
  /\ summaryLoading' = FALSE
  /\ isHandlingSearchClick' = FALSE
  /\ UNCHANGED started
  /\ calls' = RemoveAt(calls, i)
  /\ UNCHANGED << pageKind, mounted, url, rendered, query, searchResults, facets,
                  loading, error, interpretedQuery, interpreting, originalQuery,
                  isUpdatingURLFromInterpretation, pendingQueryRef,
                  isApplyingInterpretedQuery, previousQParam, timers,
                  subscription, submitted, allStructured, writtenBack, selection >>

\* setTimeout(() => { isUpdatingURLFromInterpretation.current = false }, 100)
TimerFire ==
  /\ timers > 0
  /\ isUpdatingURLFromInterpretation' = FALSE
  /\ timers' = timers - 1
  /\ UNCHANGED << pageKind, mounted, url, rendered, reactState,
                  isHandlingSearchClick, pendingQueryRef,
                  isApplyingInterpretedQuery, previousQParam, calls, started,
                  subscription, submitted, allStructured, writtenBack, selection >>

\* the verification form of the subscription modal
handleVerification(subscribed) ==
  /\ pageKind = "intermediate"
  /\ showModal
  /\ authorized' = IF subscribed THEN TRUE ELSE authorized
  /\ showModal' = IF subscribed THEN FALSE ELSE showModal
  /\ UNCHANGED << pageKind, mounted, url, rendered, reactState, refs, timers,
                  calls, started, bypass, submitted, allStructured, writtenBack, selection >>

(***************************************************************************)
(* Advanced page (the first page component of app/advanced_ai/page.tsx)    *)
(***************************************************************************)
RunEffects_A ==
  LET p == useParsedSearchParams(url)
      req == searchPropertiesAdvancedAI(URLRequestParams(p))
  IN  /\ pageKind = "advanced"
      /\ ~mounted \/ rendered # url
      /\ started < MaxCalls /\ Len(calls) < MaxPending
      /\ rendered' = url /\ mounted' = TRUE
      /\ query' = p.qParam
      /\ loading' = TRUE /\ error' = None
      /\ UNCHANGED << submitted, allStructured, writtenBack >>
      /\ started' = started + 1
      /\ calls' = Append(calls, Call("effect", url, req, FALSE, p.qParam,
                                     p.titleParam, p.descriptionParam, "none", None))
      /\ UNCHANGED << pageKind, url, searchResults, facets, interpretedQuery,
                      interpreting, originalQuery, summary, summaryLoading, refs,
                      timers, subscription, selection >>

SearchSuccess_A(i, resp) ==
  /\ pageKind = "advanced"
  /\ calls[i].pc = "search" /\ calls[i].origin = "effect"
  /\ searchResults' = Some(resp) /\ facets' = Some(FacetsOf(resp))
  /\ error' = None /\ loading' = FALSE
  /\ UNCHANGED started
  /\ calls' = RemoveAt(calls, i)
  /\ UNCHANGED << pageKind, mounted, url, rendered, query, interpretedQuery,
                  interpreting, originalQuery, summary, summaryLoading, refs,
                  timers, subscription, submitted, allStructured, writtenBack, selection >>

SearchFailure_A(i) ==
  /\ pageKind = "advanced"
  /\ calls[i].pc = "search" /\ calls[i].origin = "effect"
  /\ error' = Some(FailedToLoad) /\ searchResults' = None /\ loading' = FALSE
  /\ UNCHANGED started
  /\ calls' = RemoveAt(calls, i)
  /\ UNCHANGED << pageKind, mounted, url, rendered, query, facets,
                  interpretedQuery, interpreting, originalQuery, summary,
                  summaryLoading, refs, timers, subscription, submitted,
                  allStructured, writtenBack, selection >>

\* the payload of a chat response: the user's text and its interpretation
Payload(q, interpreted) ==
  [ q |-> q, title |-> interpreted.title, description |-> interpreted.description,
    property_type |-> interpreted.property_type, bedrooms |-> interpreted.bedrooms,
    min_price |-> interpreted.min_price, max_price |-> interpreted.max_price,
    min_sqft |-> interpreted.min_sqft, max_sqft |-> interpreted.max_sqft,
    sort |-> interpreted.sort ]

ChatPayloads ==
  { Payload(<<"A", "b">>, AffordableApartment), Payload(<<"B">>, FamilyHome) }

\* payload.x || undefined for a number
NumberOrUndefined(x) == IF TruthyNumber(x) THEN x ELSE Undefined

\* the SearchParams object handleSearchFromChat builds from the payload
ChatSearchParams(payload) ==
  [ q |-> Some(payload.q),
    title |-> OrUndefined(payload.title),
    description |-> OrUndefined(payload.description),
    property_type |-> payload.property_type,
    bedrooms |-> payload.bedrooms,
    min_price |-> NumberOrUndefined(payload.min_price),
    max_price |-> NumberOrUndefined(payload.max_price),
    min_sqft |-> NumberOrUndefined(payload.min_sqft),
    max_sqft |-> NumberOrUndefined(payload.max_sqft),
    sort |-> IF Truthy(payload.sort) THEN payload.sort ELSE None,
    page |-> Num(1), per_page |-> Num(10) ]

\* the URL update handleSearchFromChat makes after a successful search
ChatUpdates(payload) ==
  [k \in Keys |->
     CASE k = "q" -> Some(trim(toLowerCase(payload.q)))
       [] k = "title" -> Some(IF payload.title # <<>> THEN payload.title
                              ELSE toTitleCase(trim(payload.q)))
       [] k = "description" -> Some(IF payload.description # <<>>
                                    THEN payload.description
                                    ELSE trim(toLowerCase(payload.q)))
       [] k = "page" -> Some(<<"1">>)
       [] k \in {"property_type", "bedrooms"} ->
            IF NonEmptyList(payload[k]) THEN Some(join(Val(payload[k]), ","))
            ELSE None
       [] k \in {"min_price", "max_price", "min_sqft", "max_sqft"} ->
            IF TruthyNumber(payload[k]) THEN Some(toString(payload[k])) ELSE None
       [] k = "sort" -> IF Truthy(payload.sort) THEN payload.sort ELSE None]

\* Conversation calls onSearchFromChat(data.payload): handleSearchFromChat
\* up to its await
handleSearchFromChat(payload) ==
  /\ pageKind = "advanced"
  /\ Settled
  /\ payload.q # <<>>
  /\ started < MaxCalls /\ Len(calls) < MaxPending
  /\ query' = payload.q
  /\ loading' = TRUE /\ error' = None
  /\ submitted' = Some(payload.q)
  /\ allStructured' = FALSE
  /\ writtenBack' = FALSE
  /\ started' = started + 1
  /\ calls' = Append(calls, Call("chat", rendered,
                                 searchPropertiesPaged(ChatSearchParams(payload)),
                                 FALSE, payload.q, payload.title,
                                 payload.description, "none", Some(payload)))
  /\ UNCHANGED << pageKind, mounted, url, rendered, searchResults, facets,
                  interpretedQuery, interpreting, originalQuery, summary,
                  summaryLoading, refs, timers, subscription, selection >>

\* ... its search resolves: results are set and the URL is updated
ChatSearchSuccess_A(i, resp) ==
  LET c == calls[i]
  IN  /\ pageKind = "advanced"
      /\ c.pc = "search" /\ c.origin = "chat"
      /\ searchResults' = Some(resp) /\ facets' = Some(FacetsOf(resp))
      /\ error' = None /\ loading' = FALSE
      /\ url' = updateURL(c.atUrl, ChatUpdates(Val(c.payload)))
      /\ allStructured' = (Val(c.payload).title = <<>>
                           /\ Val(c.payload).description = <<>>)
      /\ writtenBack' = FALSE
      /\ selection' = SelectionOf(Val(c.payload))
      /\ UNCHANGED started
      /\ calls' = RemoveAt(calls, i)
      /\ UNCHANGED << pageKind, mounted, rendered, query, interpretedQuery,
                      interpreting, originalQuery, summary, summaryLoading, refs,
                      timers, subscription, submitted >>

\* ... its search rejects
ChatSearchFailure_A(i) ==
  /\ pageKind = "advanced"
  /\ calls[i].pc = "search" /\ calls[i].origin = "chat"
  /\ error' = Some(FailedToSearch) /\ searchResults' = None /\ loading' = FALSE
  /\ UNCHANGED started
  /\ calls' = RemoveAt(calls, i)
  /\ UNCHANGED << pageKind, mounted, url, rendered, query, facets,
                  interpretedQuery, interpreting, originalQuery, summary,
                  summaryLoading, refs, timers, subscription, submitted,
                  allStructured, writtenBack, selection >>

(***************************************************************************)
(* The pages as one system: a page is loaded at a URL, then user steps,    *)
(* renders with their effects, responses and timers interleave             *)
(***************************************************************************)
PageKinds == { "traditional", "beginner", "intermediate", "advanced" }

\* a bookmarked search with every kind of parameter
BookmarkURL ==
  [ EmptyURL EXCEPT !["q"] = Some(<<"a">>), !["title"] = Some(<<"A">>),
                    !["description"] = Some(<<"a">>),
                    !["property_type"] = Some(<<"house">>),
                    !["min_price"] = Some(<<"0">>),
                    !["max_price"] = Some(<<"5", "0", "0", "0", "0", "0">>),
                    !["sort"] = Some(<<"price_asc">>),
                    !["page"] = Some(<<"2">>) ]

\* a hand-edited URL whose min_price and page are not numbers
MalformedURL ==
  [ EmptyURL EXCEPT !["title"] = Some(<<"A">>),
                    !["min_price"] = Some(<<"a">>),
                    !["max_sqft"] = Some(<<"1", "2", "0", "0">>),
                    !["page"] = Some(<<"b">>) ]

StartURLs == { EmptyURL, BookmarkURL, MalformedURL }

ParsedSelection(sp) ==
  LET p == useParsedSearchParams(sp)
  IN  [ property_type |-> p.selectedPropertyTypes, bedrooms |-> p.selectedBedrooms,
        min_price |-> p.minPrice, max_price |-> p.maxPrice,
        min_sqft |-> p.minSqft, max_sqft |-> p.maxSqft ]

Init ==
  /\ pageKind \in PageKinds
  /\ mounted = FALSE
  /\ url \in StartURLs
  /\ url = MalformedURL => pageKind = "traditional"
  /\ rendered = url
  /\ query = GetOr(url, "q", <<>>)
  /\ searchResults = None
  /\ facets = None
  /\ loading = TRUE
  /\ error = None
  /\ interpretedQuery = None
  /\ interpreting = FALSE
  /\ originalQuery = None
  /\ summary = None
  /\ summaryLoading = FALSE
  /\ isUpdatingURLFromInterpretation = FALSE
  /\ isHandlingSearchClick = FALSE
  /\ pendingQueryRef = None
  /\ isApplyingInterpretedQuery = FALSE
  /\ previousQParam = <<>>
  /\ timers = 0
  /\ calls = <<>>
  /\ started = 0
  /\ authorized \in (IF pageKind = "intermediate" THEN BOOLEAN ELSE {FALSE})
  /\ bypass = FALSE
  /\ showModal = FALSE
  /\ submitted = None
  /\ allStructured = FALSE
  /\ writtenBack = FALSE
  /\ selection = ParsedSelection(url)

Next ==
  \/ RunEffects_T
  \/ \E i \in 1..Len(calls) : \E resp \in SearchResponses(calls[i].req) :
       SearchSuccess_T(i, resp)
  \/ \E i \in 1..Len(calls) : SearchFailure_T(i)
  \/ \E text \in TypedQueries : TypeQuery(text)
  \/ handleSearch_T
  \/ \E exampleQuery \in ExampleQueries : handleExampleQueryClick_T(exampleQuery)
  \/ RunEffects_B
  \/ \E i \in 1..Len(calls) : \E resp \in SearchResponses(calls[i].req) :
       SearchSuccess_B(i, resp)
  \/ \E i \in 1..Len(calls) : SearchFailure_B(i)
  \/ \E i \in 1..Len(calls) : \E interpreted \in InterpretedQueries :
       InterpretSuccess_B(i, interpreted)
  \/ \E i \in 1..Len(calls) : InterpretFailure_B(i)
  \/ handleSearch_B
  \/ \E exampleQuery \in ExampleQueries : handleExampleQueryClick_B(exampleQuery)
  \/ handleApplyInterpretedQuery_B
  \/ RunEffects_I
  \/ handleSearch_I
  \/ \E exampleQuery \in ExampleQueries : handleExampleQueryClick_I(exampleQuery)
  \/ \E n \in 1..Len(SearchIdeas) : RelatedSearchClick_I(SearchIdeas[n])
  \/ \E i \in 1..Len(calls) : \E resp \in SearchResponses(calls[i].req) :
       SearchSuccess_I(i, resp)
  \/ \E i \in 1..Len(calls) : SearchFailure_I(i)
  \/ \E i \in 1..Len(calls) : \E search_ideas \in {SearchIdeas} :
       SummarySuccess_I(i, search_ideas)
  \/ \E i \in 1..Len(calls) : SummaryFailure_I(i)
  \/ TimerFire
  \/ \E subscribed \in {TRUE} : handleVerification(subscribed)
  \/ RunEffects_A
  \/ \E i \in 1..Len(calls) : \E resp \in SearchResponses(calls[i].req) :
       SearchSuccess_A(i, resp)
  \/ \E i \in 1..Len(calls) : SearchFailure_A(i)
  \/ \E payload \in ChatPayloads : handleSearchFromChat(payload)
  \/ \E i \in 1..Len(calls) : \E resp \in SearchResponses(calls[i].req) :
       ChatSearchSuccess_A(i, resp)
  \/ \E i \in 1..Len(calls) : ChatSearchFailure_A(i)
  \/ \E value \in PropertyTypeOptions : ClickPropertyType(value)

Spec == Init /\ [][Next]_vars

(***************************************************************************)
(* Properties of the pages (Spec)                                          *)
(***************************************************************************)
CallIndexes == 1..Len(calls)

\* the step starts an invocation: it is the last of calls'
StartsCall == started' = started + 1

NewCall == calls'[Len(calls')]

\* C1: after a typed query is submitted (search button, example query,
\* related search, chat payload) the q written to the URL and the q sent in
\* the search request are the exact text the user entered, case preserved,
\* and no later step (an interpretation written back) replaces that q.
C1_QVerbatim ==
  [][ /\ (IsSome(submitted') /\ url'["q"] # url["q"]) => url'["q"] = submitted'
      /\ (StartsCall /\ IsSome(NewCall.typed) /\ IsSome(NewCall.req.query["q"]))
           => NewCall.req.query["q"] = NewCall.typed ]_vars

\* C2: once an interpretation or chat payload with empty title and
\* description (every token mapped to structured fields) has been written
\* to the URL, the URL holds no title and no description, and no search
\* request sent from then on carries one.
C2_ResidualOnly ==
  /\ allStructured => (~Truthy(url["title"]) /\ ~Truthy(url["description"]))
  /\ \A i \in CallIndexes :
       calls[i].afterStructured =>
         (calls[i].req.query["title"] = None /\ calls[i].req.query["description"] = None)

\* C3: beginner page: search and interpretation start in one step; when the
\* search response arrives while the interpretation is pending, searchResults
\* is set and loading is false in that step and interpretedQuery is untouched;
\* interpretedQuery is set only by an invocation whose search has returned.
\* Intermediate page: the step that issues the summary request has set
\* searchResults and made loading false.
C3_ResultsBeforeInterpretation ==
  [][ /\ (pageKind = "beginner" /\ RunEffects_B /\ shouldInterpret(GetOr(url, "q", <<>>)))
           => (NewCall.pc = "search" /\ NewCall.interp = "pending" /\ interpreting')
      /\ \A i \in CallIndexes :
           (pageKind = "beginner" /\ calls[i].pc = "search" /\ calls[i].interp = "pending")
             => \A resp \in SearchResponses(calls[i].req) :
                  SearchSuccess_B(i, resp)
                    => /\ searchResults' = Some(resp) /\ loading' = FALSE
                       /\ calls'[i].interp = "pending"
                       /\ UNCHANGED << interpretedQuery, interpreting >>
      /\ (pageKind = "beginner" /\ interpretedQuery' # interpretedQuery
            /\ IsSome(interpretedQuery'))
           => \E i \in CallIndexes :
                \/ calls[i].pc = "interpret"
                \/ /\ calls[i].pc = "search" /\ calls[i].interp = "settled"
                   /\ IsSome(searchResults') /\ loading' = FALSE
      /\ \A i \in CallIndexes :
           (pageKind = "intermediate" /\ calls[i].pc = "search"
              /\ Len(calls') = Len(calls) /\ calls'[i].pc = "summary")
             => \A resp \in SearchResponses(calls[i].req) :
                  SearchSuccess_I(i, resp)
                    => /\ summaryLoading'
                       /\ searchResults' = Some(resp) /\ loading' = FALSE ]_vars

\* the beginner page shows results while the interpretation is still pending
C3_Witness ==
  /\ pageKind = "beginner"
  /\ \E i \in CallIndexes : calls[i].pc = "interpret" /\ calls[i].interp = "pending"
  /\ IsSome(searchResults) /\ ~loading /\ interpreting
  /\ interpretedQuery = None

\* C4: intermediate page: when the summary request fails after a successful
\* search, error, searchResults and facets are left as the search set them,
\* summary is null and summaryLoading is false again.
C4_SummaryFailureHarmless ==
  [][ \A i \in CallIndexes :
        (pageKind = "intermediate" /\ calls[i].pc = "summary" /\ SummaryFailure_I(i))
          => /\ UNCHANGED << error, searchResults, facets, loading >>
             /\ summary' = None /\ summaryLoading' = FALSE ]_vars

\* a finished search with results and a query whose summary is absent
C4_Witness ==
  /\ pageKind = "intermediate"
  /\ calls = <<>> /\ started = 2
  /\ IsSome(searchResults) /\ Val(searchResults).nonEmpty
  /\ IsSome(originalQuery)
  /\ error = None /\ ~loading /\ summary = None /\ ~summaryLoading

C6_SearchFailureIsHard ==
  [][ \A i \in CallIndexes :
        (calls[i].pc = "search"
           /\ (\/ SearchFailure_T(i) \/ SearchFailure_B(i) \/ SearchFailure_I(i)
               \/ SearchFailure_A(i) \/ ChatSearchFailure_A(i)))
          => (IsSome(error') /\ searchResults' = None /\ loading' = FALSE) ]_vars

\* a failed search after an earlier one had succeeded: its list is gone
C6_Witness ==
  /\ IsSome(error) /\ searchResults = None /\ ~loading
  /\ IsSome(facets)
  /\ started >= 2

NumericKeys == {"min_price", "max_price", "min_sqft", "max_sqft", "page"}

\* a decimal integer as toString writes it
Canonical(o) == DigitsOnly(o) /\ (Val(o)[1] = "0" => Len(Val(o)) = 1)

WellFormedURL(sp) ==
  /\ \A k \in NumericKeys : IsSome(sp[k]) => Canonical(sp[k])
  /\ IsSome(sp["page"]) => sp["page"] # Some(<<"0">>)

\* C8: the search request a page issues when it is loaded at, or navigated
\* to, a URL carries exactly that URL's q, title, description, property_type,
\* bedrooms, price and sqft bounds, and the sort and page the URL names,
\* whatever happened before.
C8_RequestFromURLAlone ==
  \A i \in CallIndexes :
    (calls[i].origin = "effect" /\ WellFormedURL(calls[i].atUrl))
      => /\ \A k \in Keys \ {"sort", "page"} :
              calls[i].req.query[k] = calls[i].atUrl[k]
         /\ \A k \in {"sort", "page"} :
              IsSome(calls[i].atUrl[k]) => calls[i].req.query[k] = calls[i].atUrl[k]

\* C9: a numeric URL parameter (min_price, max_price, min_sqft, max_sqft,
\* page) that does not parse as an integer is left out of the search
\* request, and the other parameters are sent as the URL has them.
C9_MalformedNumberIgnored ==
  \A i \in CallIndexes :
    calls[i].origin = "effect" =>
      \A k \in NumericKeys :
        (IsSome(calls[i].atUrl[k]) /\ parseInt(Val(calls[i].atUrl[k])) = NaN)
          => calls[i].req.query[k] = None

(***************************************************************************)
(* The interpretation prompt: "Parameter Extraction Rules"                 *)
(* A query is the sequence of its words; each rule of the table is applied *)
(* to every word it names.                                                 *)
(***************************************************************************)
MaxWords == 4

\* the words a query is made of
Vocabulary ==
  {"Family", "home", "under", "800k", "Affordable", "apartment", "luxury", "parking"}

WordQueries == UNION { [1..n -> Vocabulary] : n \in 0..MaxWords }

\* the rules match words whatever their case
LowerWord(w) ==
  CASE w = "Family" -> "family" [] w = "Affordable" -> "affordable" [] OTHER -> w

\* "title should be title case"
TitleWord(w) ==
  CASE w = "family" -> "Family" [] w = "home" -> "Home" [] w = "under" -> "Under"
    [] w = "affordable" -> "Affordable" [] w = "apartment" -> "Apartment"
    [] w = "luxury" -> "Luxury" [] w = "parking" -> "Parking" [] OTHER -> w

LowerWords(ws) == [i \in 1..Len(ws) |-> LowerWord(ws[i])]

\* the values of a list without repetitions, in order of first appearance
RECURSIVE Distinct(_)
Distinct(xs) ==
  IF xs = <<>> THEN <<>> ELSE <<Head(xs)>> \o Distinct(without(Tail(xs), Head(xs)))

RECURSIVE Flatten(_)
Flatten(xss) == IF xss = <<>> THEN <<>> ELSE Head(xss) \o Flatten(Tail(xss))

\* Property Type: explicit types, "home"/"homes" -> "house", "studio" -> "apartment"
PropertyTypesOf(w) ==
  CASE w \in {"house", "condo", "apartment", "townhouse"} -> << <<w>> >>
    [] w \in {"home", "homes"} -> << <<"house">> >>
    [] w = "studio" -> << <<"apartment">> >>
    [] OTHER -> <<>>

\* Bedrooms: "family" -> [3, 4, 5], "studio"/"cozy" -> [1], "small" -> [1, 2]
BedroomsOf(w) ==
  CASE w = "family" -> << <<"3">>, <<"4">>, <<"5">> >>
    [] w \in {"studio", "cozy"} -> << <<"1">> >>
    [] w = "small" -> << <<"1">>, <<"2">> >>
    [] OTHER -> <<>>

\* Price: "800k" -> 800000
IsAmount(w) == w = "800k"
AmountOf(w) == 800000

\* Price: "under X", "below X" -> max_price=X
IsUpperComparator(w) == w \in {"under", "below"}
BoundsAmount(ws, i) == i < Len(ws) /\ IsUpperComparator(ws[i]) /\ IsAmount(ws[i + 1])

\* Price: "luxury", "expensive" -> min_price=1000000 (or higher)
LuxuryMinPrices == {1000000, 1500000}

MaxPricesOf(ws, i) ==
  (IF ws[i] = "affordable" THEN {500000} ELSE {})
    \cup (IF BoundsAmount(ws, i) THEN {AmountOf(ws[i + 1])} ELSE {})

MinPricesOf(w) == IF w \in {"luxury", "expensive"} THEN LuxuryMinPrices ELSE {}

\* Sort: "luxury" -> price_desc, "affordable" -> price_asc
SortsOfIgnoringAffordable(w) ==
  CASE w \in {"luxury"} -> {<<"price_desc">>}
    [] w \in {"cheapest"} -> {<<"price_asc">>}
    [] OTHER -> {}

SortsOf(w) ==
  CASE w \in {"luxury"} -> {<<"price_desc">>}
    [] w \in {"cheapest", "affordable"} -> {<<"price_asc">>}
    [] OTHER -> {}

\* the word at i is mapped to a structured parameter
IsMapped(ws, i) ==
  \/ PropertyTypesOf(ws[i]) # <<>>
  \/ BedroomsOf(ws[i]) # <<>>
  \/ MaxPricesOf(ws, i) # {}
  \/ (i > 1 /\ BoundsAmount(ws, i - 1))
  \/ MinPricesOf(ws[i]) # {}
  \/ SortsOf(ws[i]) # {}

\* Title and Description: only the text that is NOT mapped
RECURSIVE ResidualFrom(_, _)
ResidualFrom(ws, i) ==
  IF i > Len(ws) THEN <<>>
  ELSE (IF IsMapped(ws, i) THEN <<>> ELSE << ws[i] >>) \o ResidualFrom(ws, i + 1)

Spaced(ws) == join([i \in 1..Len(ws) |-> <<ws[i]>>], " ")

\* one of the values the rules give a single-valued field, the default
\* when no rule matches
Candidates(values, default) == IF values = {} THEN {default} ELSE values

\* the outputs the rules allow for the query: where two rules give one field
\* different values, the table does not say which one wins
Interpretations(words) ==
  LET ws == LowerWords(words)
      residual == ResidualFrom(ws, 1)
      types == Distinct(Flatten([i \in 1..Len(ws) |-> PropertyTypesOf(ws[i])]))
      beds == Distinct(Flatten([i \in 1..Len(ws) |-> BedroomsOf(ws[i])]))
      maxPrices == UNION { MaxPricesOf(ws, i) : i \in 1..Len(ws) }
      minPrices == UNION { MinPricesOf(ws[i]) : i \in 1..Len(ws) }
      sorts == UNION { SortsOf(ws[i]) : i \in 1..Len(ws) }
  IN  { [ title |-> Spaced([i \in 1..Len(residual) |-> TitleWord(residual[i])]),
          description |-> Spaced(residual),
          property_type |-> ListOrUndefined(types),
          bedrooms |-> ListOrUndefined(beds),
          min_price |-> lo, max_price |-> hi,
          min_sqft |-> Undefined, max_sqft |-> Undefined,
          sort |-> Some(s) ] :
        lo \in Candidates({ Num(n) : n \in minPrices }, Undefined),
        hi \in Candidates({ Num(n) : n \in maxPrices }, Undefined),
        s \in Candidates(sorts, Relevance) }

\* the agent answers a query
Interpret ==
  /\ pageKind = "prompt"
  /\ interpretedQuery = None
  /\ \E interpreted \in Interpretations(query) : interpretedQuery' = Some(interpreted)
  /\ UNCHANGED << pageKind, mounted, url, rendered, query, searchResults, facets,
                  loading, error, interpreting, originalQuery, summary,
                  summaryLoading, refs, timers, calls, started, subscription,
                  submitted, allStructured, writtenBack, selection >>

PromptInit ==
  /\ pageKind = "prompt"
  /\ mounted = FALSE
  /\ url = EmptyURL
  /\ rendered = url
  /\ query \in WordQueries
  /\ searchResults = None
  /\ facets = None
  /\ loading = FALSE
  /\ error = None
  /\ interpretedQuery = None
  /\ interpreting = FALSE
  /\ originalQuery = None
  /\ summary = None
  /\ summaryLoading = FALSE
  /\ isUpdatingURLFromInterpretation = FALSE
  /\ isHandlingSearchClick = FALSE
  /\ pendingQueryRef = None
  /\ isApplyingInterpretedQuery = FALSE
  /\ previousQParam = <<>>
  /\ timers = 0
  /\ calls = <<>>
  /\ started = 0
  /\ authorized = FALSE
  /\ bypass = FALSE
  /\ showModal = FALSE
  /\ submitted = None
  /\ allStructured = FALSE
  /\ writtenBack = FALSE
  /\ selection = SelectionOf(NoInterpretation)

PromptNext == Interpret

PromptSpec == PromptInit /\ [][PromptNext]_vars

(***************************************************************************)
(* Properties of the interpretation rules (PromptSpec)                     *)
(***************************************************************************)
Contains(words, w) == \E i \in 1..Len(words) : LowerWord(words[i]) = w

\* C11: applying the rules to "Family home under 800k" yields exactly
\* bedrooms 3, 4, 5, property_type house and townhouse, max_price 800000,
\* title "Family", description "family" and sort relevance.
C11_FamilyHomeUnder800k ==
  (query = <<"Family", "home", "under", "800k">> /\ IsSome(interpretedQuery))
    => Val(interpretedQuery) =
         [ NoInterpretation EXCEPT
             !.title = <<"Family">>, !.description = <<"family">>,
             !.property_type = Some(<< <<"house">>, <<"townhouse">> >>),
             !.bedrooms = Some(<< <<"3">>, <<"4">>, <<"5">> >>),
             !.max_price = Num(800000),
             !.sort = Some(Relevance) ]

HasExplicitMaxPrice(words) ==
  \E i \in 1..Len(words) : BoundsAmount(LowerWords(words), i)

PropertyTypes == {"house", "condo", "apartment", "townhouse"}
BedroomCounts == 0..5

Property(id, type, beds, price, sqft) ==
  [ id |-> id, property_type |-> type, bedrooms |-> beds,
    price |-> price, square_feet |-> sqft ]

\* a catalog with a property on each side of every bucket boundary
Catalog ==
  { Property(1, "house", 3, 0, 799),
    Property(2, "condo", 0, 499999, 800),
    Property(3, "apartment", 1, 500000, 0),
    Property(4, "townhouse", 2, 750000, 1200),
    Property(5, "house", 4, 999999, 1799),
    Property(6, "house", 5, 1000000, 1800),
    Property(7, "condo", 2, 1500000, 2500),
    Property(8, "house", 5, 1000000000, 1000000) }

\* inclusive low bound, exclusive high bound, the last bucket open-ended
InRange(value, range) ==
  /\ range.min.n <= value
  /\ range.max = Undefined \/ value < range.max.n

CountOf(subset, field, value) ==
  Cardinality({ p \in subset : p[field] = value })

computeFacets(subset) ==
  [ property_type |-> [t \in PropertyTypes |-> CountOf(subset, "property_type", t)],
    bedrooms |-> [b \in BedroomCounts |-> CountOf(subset, "bedrooms", b)],
    price_ranges |->
      [i \in 1..Len(availablePriceRanges) |->
         Cardinality({ p \in subset :
                         InRange(p.price, parsePriceRange(availablePriceRanges[i])) })],
    square_feet_ranges |->
      [i \in 1..Len(availableSqftRanges) |->
         Cardinality({ p \in subset :
                         InRange(p.square_feet, parseSqftRange(availableSqftRanges[i])) })] ]

\* the back end answers with the facets of a result set
Aggregate ==
  /\ pageKind = "backend"
  /\ IsSome(searchResults) /\ facets = None
  /\ facets' = Some(computeFacets(Val(searchResults)))
  /\ UNCHANGED << pageKind, mounted, url, rendered, query, searchResults, loading,
                  error, interpretedQuery, interpreting, originalQuery, summary,
                  summaryLoading, refs, timers, calls, started, subscription,
                  submitted, allStructured, writtenBack, selection >>

CatalogInit ==
  /\ pageKind = "backend"
  /\ mounted = FALSE
  /\ url = EmptyURL
  /\ rendered = url
  /\ query = <<>>
  /\ \E subset \in SUBSET Catalog : searchResults = Some(subset)
  /\ facets = None
  /\ loading = FALSE
  /\ error = None
  /\ interpretedQuery = None
  /\ interpreting = FALSE
  /\ originalQuery = None
  /\ summary = None
  /\ summaryLoading = FALSE
  /\ isUpdatingURLFromInterpretation = FALSE
  /\ isHandlingSearchClick = FALSE
  /\ pendingQueryRef = None
  /\ isApplyingInterpretedQuery = FALSE
  /\ previousQParam = <<>>
  /\ timers = 0
  /\ calls = <<>>
  /\ started = 0
  /\ authorized = FALSE
  /\ bypass = FALSE
  /\ showModal = FALSE
  /\ submitted = None
  /\ allStructured = FALSE
  /\ writtenBack = FALSE
  /\ selection = SelectionOf(NoInterpretation)

CatalogNext == Aggregate

CatalogSpec == CatalogInit /\ [][CatalogNext]_vars

(***************************************************************************)
(* Properties of the facet aggregator (CatalogSpec)                        *)
(***************************************************************************)
\* the sum of the counts of one facet dimension
RECURSIVE SumOver(_, _)
SumOver(counts, keys) ==
  IF keys = {} THEN 0
  ELSE LET k == CHOOSE x \in keys : TRUE
       IN  counts[k] + SumOver(counts, keys \ {k})

Total(counts) == SumOver(counts, DOMAIN counts)

\* C13: for every subset of properties the price buckets and the
\* square-footage buckets are mutually exclusive and exhaustive, so the
\* counts of each dimension (property_type, bedrooms, price range, sqft
\* range) sum to the size of the subset.
C13_FacetCountsSumToSize ==
  IsSome(facets)
    => LET subset == Val(searchResults)
           counted == Val(facets)
       IN  /\ \A p \in subset :
                /\ Cardinality({ i \in 1..Len(availablePriceRanges) :
                     InRange(p.price, parsePriceRange(availablePriceRanges[i])) }) = 1
                /\ Cardinality({ i \in 1..Len(availableSqftRanges) :
                     InRange(p.square_feet, parseSqftRange(availableSqftRanges[i])) }) = 1
           /\ \A dimension \in DOMAIN counted :
                Total(counted[dimension]) = Cardinality(subset)

\* the facets of a subset with a property on a bucket boundary and one
\* beyond the last key's written upper bound
C13_Witness ==
  /\ pageKind = "backend"
  /\ IsSome(facets)
  /\ \E p \in Val(searchResults) : p.price = 500000
  /\ \E p \in Val(searchResults) : p.price > 999999999
  /\ Cardinality(Val(searchResults)) >= 3

(***************************************************************************)
(* GateSpec: the intermediate page opened on the empty search by a user    *)
(* without the authorization cookie, with or without bypass-subscription   *)
(* in the location                                                         *)
(***************************************************************************)
GateInit ==
  /\ Init
  /\ pageKind = "intermediate"
  /\ url = EmptyURL
  /\ authorized = FALSE

BypassInit ==
  /\ pageKind = "intermediate"
  /\ mounted = FALSE
  /\ url = EmptyURL
  /\ rendered = url
  /\ query = <<>>
  /\ searchResults = None
  /\ facets = None
  /\ loading = TRUE
  /\ error = None
  /\ interpretedQuery = None
  /\ interpreting = FALSE
  /\ originalQuery = None
  /\ summary = None
  /\ summaryLoading = FALSE
  /\ isUpdatingURLFromInterpretation = FALSE
  /\ isHandlingSearchClick = FALSE
  /\ pendingQueryRef = None
  /\ isApplyingInterpretedQuery = FALSE
  /\ previousQParam = <<>>
  /\ timers = 0
  /\ calls = <<>>
  /\ started = 0
  /\ authorized = FALSE
  /\ bypass = TRUE
  /\ showModal = FALSE
  /\ submitted = None
  /\ allStructured = FALSE
  /\ writtenBack = FALSE
  /\ selection = ParsedSelection(url)

GateNext ==
  \/ RunEffects_I
  \/ \E text \in TypedQueries : TypeQuery(text)
  \/ handleSearch_I
  \/ \E exampleQuery \in ExampleQueries : handleExampleQueryClick_I(exampleQuery)
  \/ \E n \in 1..Len(SearchIdeas) : RelatedSearchClick_I(SearchIdeas[n])
  \/ \E i \in 1..Len(calls) : \E resp \in SearchResponses(calls[i].req) :
       SearchSuccess_I(i, resp)
  \/ \E i \in 1..Len(calls) : SearchFailure_I(i)
  \/ \E i \in 1..Len(calls) : \E search_ideas \in {SearchIdeas} :
       SummarySuccess_I(i, search_ideas)
  \/ \E i \in 1..Len(calls) : SummaryFailure_I(i)
  \/ TimerFire
  \/ \E subscribed \in {TRUE} : handleVerification(subscribed)
  \/ \E value \in PropertyTypeOptions : ClickPropertyType(value)

GateSpec == (GateInit \/ BypassInit) /\ [][GateNext]_vars

(***************************************************************************)
(* Properties of the subscription gate (GateSpec)                          *)
(***************************************************************************)
\* the step is one of the three gated handlers of the intermediate page
GatedHandlerStep ==
  \/ handleSearch_I
  \/ \E exampleQuery \in ExampleQueries : handleExampleQueryClick_I(exampleQuery)
  \/ \E n \in 1..Len(SearchIdeas) : RelatedSearchClick_I(SearchIdeas[n])

\* C14: an interpreting search request and a summary request are issued
\* only for a user action taken while the user is authorized or the location
\* contains bypass-subscription; a gated handler run without either leaves
\* the URL, the pending query, the results and the interpreted query
\* unchanged and sends no request.
C14_GatedBySubscription ==
  [][ /\ (StartsCall /\ (NewCall.clicked \/ NewCall.req.endpoint = "/intermediate_ai/search"))
           => (authorized \/ bypass)
      /\ \A i \in CallIndexes :
           (calls[i].pc = "summary" \/ calls[i].req.endpoint = "/intermediate_ai/search")
             => calls[i].clicked
      /\ (~(authorized \/ bypass) /\ GatedHandlerStep)
           => UNCHANGED << url, pendingQueryRef, searchResults, interpretedQuery,
                           originalQuery, calls, started >> ]_vars

\* a click was blocked, the user verified the subscription, and the
\* interpreting request of a later click is in flight
C14_Witness ==
  /\ pageKind = "intermediate" /\ ~bypass /\ authorized /\ ~showModal
  /\ \E i \in CallIndexes :
       calls[i].clicked /\ calls[i].req.endpoint = "/intermediate_ai/search"

(***************************************************************************)
(* Properties of the range checkboxes (FacetSpec)                          *)
(***************************************************************************)
\* the checked boxes of the Price Range and Square Feet groups, as
\* FacetsSidebar derives them from the bounds of the URL sp
SelectedPriceRangesOf(sp) ==
  getSelectedPriceRanges(GetInt(sp, "min_price"), GetInt(sp, "max_price"))

SelectedSqftRangesOf(sp) ==
  getSelectedSqftRanges(GetInt(sp, "min_sqft"), GetInt(sp, "max_sqft"))

\* C15: whatever the current bounds, checking an unchecked range box v
\* (handlePriceRangeChange(v, true), handleSqftRangeChange(v, true)) gives
\* bounds from which v is derived as selected, the open-ended last bucket
\* with a max bound already set included.
C15_ExpandIncludesClicked ==
  /\ \A v \in PriceRangeOptions :
       ~Includes(SelectedPriceRangesOf(url), v)
         => Includes(SelectedPriceRangesOf(handlePriceRangeChange(url, v, TRUE)), v)
  /\ \A v \in SqftRangeOptions :
       ~Includes(SelectedSqftRangesOf(url), v)
         => Includes(SelectedSqftRangesOf(handleSqftRangeChange(url, v, TRUE)), v)

\* C16: whatever the current bounds, unchecking a checked range box v
\* (handlePriceRangeChange(v, false), handleSqftRangeChange(v, false)) gives
\* bounds from which v is no longer derived as selected, and removes both
\* bounds from the URL when v was the only selected bucket.
C16_ContractExcludesClicked ==
  /\ \A v \in PriceRangeOptions :
       Includes(SelectedPriceRangesOf(url), v)
         => LET new == handlePriceRangeChange(url, v, FALSE)
            IN  /\ ~Includes(SelectedPriceRangesOf(new), v)
                /\ SelectedPriceRangesOf(url) = <<v>>
                     => (new["min_price"] = None /\ new["max_price"] = None)
  /\ \A v \in SqftRangeOptions :
       Includes(SelectedSqftRangesOf(url), v)
         => LET new == handleSqftRangeChange(url, v, FALSE)
            IN  /\ ~Includes(SelectedSqftRangesOf(new), v)
                /\ SelectedSqftRangesOf(url) = <<v>>
                     => (new["min_sqft"] = None /\ new["max_sqft"] = None)

\* C17: toggling the range box v changes the selected status of v only:
\* every other bucket is selected afterwards if and only if it was before.
C17_OnlyClickedChanges ==
  /\ \A v \in PriceRangeOptions :
       LET new == handlePriceRangeChange(url, v, ~Includes(SelectedPriceRangesOf(url), v))
       IN  \A w \in PriceRangeOptions \ {v} :
             Includes(SelectedPriceRangesOf(new), w) <=> Includes(SelectedPriceRangesOf(url), w)
  /\ \A v \in SqftRangeOptions :
       LET new == handleSqftRangeChange(url, v, ~Includes(SelectedSqftRangesOf(url), v))
       IN  \A w \in SqftRangeOptions \ {v} :
             Includes(SelectedSqftRangesOf(new), w) <=> Includes(SelectedSqftRangesOf(url), w)

(***************************************************************************)
(* RangeSpec: the hooks on a URL whose bounds are those of a contiguous    *)
(* run of price buckets and of square-footage buckets (or absent)          *)
(***************************************************************************)
\* the contiguous runs of a list of range keys
Runs(ranges) ==
  { SubSeq(ranges, first, last) :
      first \in 1..Len(ranges), last \in 1..Len(ranges) } \ { <<>> }

\* low bound of the first bucket, high bound of the last one
PriceBoundsOf(run) ==
  IF run = <<>> THEN [min |-> Undefined, max |-> Undefined]
  ELSE [min |-> parsePriceRange(run[1]).min, max |-> parsePriceRange(run[Len(run)]).max]

SqftBoundsOf(run) ==
  IF run = <<>> THEN [min |-> Undefined, max |-> Undefined]
  ELSE [min |-> parseSqftRange(run[1]).min, max |-> parseSqftRange(run[Len(run)]).max]

RangeInit ==
  /\ pageKind = "hooks"
  /\ mounted = TRUE
  /\ \E priceRun \in Runs(availablePriceRanges) \cup { <<>> } :
       \E sqftRun \in Runs(availableSqftRanges) \cup { <<>> } :
         /\ selection =
              [ property_type |-> <<>>, bedrooms |-> <<>>,
                min_price |-> PriceBoundsOf(priceRun).min,
                max_price |-> PriceBoundsOf(priceRun).max,
                min_sqft |-> SqftBoundsOf(sqftRun).min,
                max_sqft |-> SqftBoundsOf(sqftRun).max ]
         /\ url = updateURL(EmptyURL,
                    [k \in {"min_price", "max_price", "min_sqft", "max_sqft"} |->
                       ToStringOrNull(selection[k])])
  /\ rendered = url
  /\ query = <<>>
  /\ searchResults = Some([nonEmpty |-> TRUE, interpreted_query |-> None])
  /\ facets = Some(ShownFacets)
  /\ loading = FALSE
  /\ error = None
  /\ interpretedQuery = None
  /\ interpreting = FALSE
  /\ originalQuery = None
  /\ summary = None
  /\ summaryLoading = FALSE
  /\ isUpdatingURLFromInterpretation = FALSE
  /\ isHandlingSearchClick = FALSE
  /\ pendingQueryRef = None
  /\ isApplyingInterpretedQuery = FALSE
  /\ previousQParam = <<>>
  /\ timers = 0
  /\ calls = <<>>
  /\ started = 0
  /\ authorized = FALSE
  /\ bypass = FALSE
  /\ showModal = FALSE
  /\ submitted = None
  /\ allStructured = FALSE
  /\ writtenBack = FALSE

RangeSpec == RangeInit /\ [][FacetNext]_vars

\* C18: whenever the bounds of the URL are those of a non-empty contiguous
\* run S of the five price (or sqft) buckets (min the low bound of its first
\* bucket, max the high bound of its last one, absent for the open-ended
\* bucket), the ranges derived from them are exactly S; with both bounds
\* absent the derived list is empty.
C18_RunRoundTrips ==
  /\ \A run \in Runs(availablePriceRanges) \cup { <<>> } :
       ( /\ GetInt(url, "min_price") = PriceBoundsOf(run).min
         /\ GetInt(url, "max_price") = PriceBoundsOf(run).max )
         => SelectedPriceRangesOf(url) = run
  /\ \A run \in Runs(availableSqftRanges) \cup { <<>> } :
       ( /\ GetInt(url, "min_sqft") = SqftBoundsOf(run).min
         /\ GetInt(url, "max_sqft") = SqftBoundsOf(run).max )
         => SelectedSqftRangesOf(url) = run

\* after a click in the sidebar the URL carries the bounds of the middle
\* three price buckets and of the last two square-footage buckets
C18_Witness ==
  /\ pageKind = "hooks"
  /\ selection.property_type # <<>>
  /\ GetInt(url, "min_price") = Num(500000) /\ GetInt(url, "max_price") = Num(1500000)
  /\ Len(SelectedPriceRangesOf(url)) = 3
  /\ GetInt(url, "min_sqft") = Num(1800) /\ GetInt(url, "max_sqft") = Undefined
  /\ Len(SelectedSqftRangesOf(url)) = 2

(***************************************************************************)
(* Properties of a query submission and of the written-back URL (Spec)     *)
(***************************************************************************)
FilterKeys == {"property_type", "bedrooms", "min_price", "max_price",
               "min_sqft", "max_sqft", "sort"}

NoFilters(params) == \A k \in FilterKeys : params[k] = None

\* a request without filters: no list, no bound, and the default sort at most
NoFiltersSent(request) ==
  /\ \A k \in FilterKeys \ {"sort"} : request[k] = None
  /\ request["sort"] \in {None, Some(Relevance)}

\* C19: when a non-empty query is submitted with the search button, the URL
\* written has no facet filter and no sort, and the search request issued
\* for the submission (by the searchParams effect in the traditional page,
\* by the handler itself in the intermediate page) carries no property_type,
\* bedrooms, price or sqft bound or sort of the previous URL.
C19_NewQueryClearsFilters ==
  [][ /\ (pageKind = "traditional" /\ IsSome(submitted') /\ handleSearch_T)
           => NoFilters(url')
      /\ (pageKind = "traditional" /\ StartsCall /\ NoFilters(url))
           => NoFiltersSent(NewCall.req.query)
      /\ (pageKind = "intermediate" /\ StartsCall /\ IsSome(submitted') /\ handleSearch_I)
           => (NoFilters(url') /\ NoFiltersSent(NewCall.req.query)) ]_vars

\* C20: in the intermediate page the searchParams effect that runs for the
\* URL written back from an interpretation does not run performSearch again
\* (it is skipped), whether the 100 ms timer that resets
\* isUpdatingURLFromInterpretation fires before or after the URL change is
\* rendered.
C20_WriteBackNeverSearches ==
  [][ (pageKind = "intermediate" /\ writtenBack /\ rendered # url /\ RunEffects_I)
        => ~StartsCall ]_vars


(***************************************************************************)
(* Facet changes and re-interpretation (beginner and intermediate pages)   *)
(***************************************************************************)
\* the q a search request carries ('' when the request has none)
QueryOf(request) ==
  IF request.query["q"] = None THEN <<>> ELSE Val(request.query["q"])

\* C21: a facet-only change never triggers re-interpretation.  In the
\* beginner page previousQParam holds the q of the latest search, and a
\* search starts an interpretation request only when its q differs from the
\* q of the previous search; in the intermediate page every search that is
\* not started by the search button, an example query or a related search
\* goes to the traditional endpoint and carries no q.
C21_FacetChangeNeverReinterprets ==
  [][ /\ (pageKind = "beginner" /\ StartsCall)
           => /\ previousQParam' = QueryOf(NewCall.req)
              /\ NewCall.interp = "pending"
                   => QueryOf(NewCall.req) # previousQParam
      /\ (pageKind = "intermediate" /\ StartsCall /\ NewCall.origin # "click")
           => /\ NewCall.req.endpoint = "/search"
              /\ NewCall.req.query["q"] = None ]_vars

\* a beginner search of a non-empty q, after an earlier search, that started
\* no interpretation although no interpreted query was being applied
C21_Witness ==
  /\ pageKind = "beginner"
  /\ started >= 2
  /\ ~isApplyingInterpretedQuery
  /\ \E i \in CallIndexes :
       /\ calls[i].interp = "none"
       /\ QueryOf(calls[i].req) # <<>>
       /\ calls[i].atUrl["property_type"] # None


(***************************************************************************)
(* Refining a result set by one price bucket: the facet handler writes the *)
(* bucket's bounds to the URL, the request carries them, and the back end  *)
(* filters the result set by the request                                   *)
(***************************************************************************)
\* min/max bounds of the filter: both inclusive, an absent bound is no bound
WithinBounds(value, lo, hi) ==
  /\ lo = Undefined \/ lo.n <= value
  /\ hi = Undefined \/ value <= hi.n

\* the filter on the bounds of a request (the requests of this
\* specification carry no other field)
filterProperties(subset, params) ==
  { p \in subset :
      /\ WithinBounds(p.price, params.min_price, params.max_price)
      /\ WithinBounds(p.square_feet, params.min_sqft, params.max_sqft) }

\* a result set with no price filter, shown with its facet counts
RefineInit ==
  /\ pageKind = "refine"
  /\ mounted = TRUE
  /\ url = EmptyURL
  /\ rendered = url
  /\ query = <<>>
  /\ \E subset \in SUBSET Catalog :
       /\ searchResults = Some(subset)
       /\ facets = Some(computeFacets(subset))
  /\ loading = FALSE
  /\ error = None
  /\ interpretedQuery = None
  /\ interpreting = FALSE
  /\ originalQuery = None
  /\ summary = None
  /\ summaryLoading = FALSE
  /\ isUpdatingURLFromInterpretation = FALSE
  /\ isHandlingSearchClick = FALSE
  /\ pendingQueryRef = None
  /\ isApplyingInterpretedQuery = FALSE
  /\ previousQParam = <<>>
  /\ timers = 0
  /\ calls = <<>>
  /\ started = 0
  /\ authorized = FALSE
  /\ bypass = FALSE
  /\ showModal = FALSE
  /\ submitted = None
  /\ allStructured = FALSE
  /\ writtenBack = FALSE
  /\ selection = SelectionOf(NoInterpretation)

\* handlePriceRangeChange(value, true) with no price filter in the URL
SelectPriceBucket(value) ==
  /\ pageKind = "refine"
  /\ GetInt(rendered, "min_price") = Undefined
  /\ GetInt(rendered, "max_price") = Undefined
  /\ ClickPriceRange(value)

\* the search for the new URL: the request is built from the parsed URL and
\* the back end returns the properties of the result set that pass the filter
FilterByRequest ==
  /\ pageKind = "refine"
  /\ rendered # url
  /\ rendered' = url
  /\ searchResults' = Some(filterProperties(Val(searchResults),
                              URLRequestParams(useParsedSearchParams(url))))
  /\ UNCHANGED << pageKind, mounted, url, query, facets, loading, error,
                  interpretedQuery, interpreting, originalQuery, summary,
                  summaryLoading, refs, timers, calls, started, subscription,
                  submitted, allStructured, writtenBack, selection >>

RefineNext ==
  \/ \E v \in PriceRangeOptions : SelectPriceBucket(v)
  \/ FilterByRequest

RefineSpec == RefineInit /\ [][RefineNext]_vars

\* C22: selecting a single price bucket returns exactly the properties that
\* bucket's facet counted: once the search for the URL written by
\* handlePriceRangeChange(v, true) from no price filter has returned, every
\* property returned falls into bucket v (inclusive low, exclusive high) and
\* the number returned is the count the facet showed for v.
C22_BucketSelectsWhatFacetCounted ==
  (pageKind = "refine" /\ rendered = url /\ IsSome(url["min_price"]))
    => \A i \in 1..Len(availablePriceRanges) :
         url = handlePriceRangeChange(EmptyURL, availablePriceRanges[i], TRUE)
           => /\ \A p \in Val(searchResults) :
                   InRange(p.price, parsePriceRange(availablePriceRanges[i]))
              /\ Cardinality(Val(searchResults)) = Val(facets).price_ranges[i]
====
